---- MODULE Spec2Model ----
(***************************************************************************)
(* A model of the UX analyzer (src/ux-analyzer.py): the palette            *)
(* extraction, the region segmentation and the element detection of        *)
(* class UXAnalyzer, its analyze and save_json as the analyze command of   *)
(* the command line runs them, the colour formatting rgb_to_hex, and the   *)
(* loading of a UI spec by SpecParser (generators/spec_parser.py).         *)
(* The later sections model the tools around it: the extraction of HTML    *)
(* from a reply (utils/html_utils.py), CodeGenerator.generate, the steps   *)
(* of render_and_screenshot, SpecConverter.json_to_spec, ImageComparator   *)
(* (core/comparison.py) and the convert and compare command handlers.      *)
(*                                                                         *)
(* OpenCV, Pillow and numpy are libraries outside the repository.  They    *)
(* are modelled by their interface: the contours cv2.findContours          *)
(* reports, the colour a resized crop shows and the labelling cv2.kmeans   *)
(* returns are nondeterministic choices from small sets.                   *)
(***************************************************************************)
EXTENDS Integers, Sequences, FiniteSets, TLC

VARIABLES
    width,      \* self.width
    height,     \* self.height
    regions,    \* the list detect_regions returned, <<>> before the call
    target,     \* index in regions of the region given to detect_ui_elements
    contours,   \* the bounding rectangles of the contours cv2 found there
    elements,   \* the list detect_ui_elements returned
    stage,      \* "loaded", "segmented" or "detected"
    pixels,     \* the image's pixels in raster order, each <<r, g, b>>
    n_colors,   \* the argument of get_dominant_colors
    labels,     \* labels of cv2.kmeans: pixel index -> cluster index
    centers,    \* centers of cv2.kmeans: one row per cluster, as the code reads them
    palette,    \* the list get_dominant_colors returned
    pstage,     \* "loaded", "clustered" or "raised"
    rgb_in,     \* the argument of rgb_to_hex
    hex_out,    \* the string rgb_to_hex returned
    hstage,     \* "given" or "formatted"
    HAS_OCR,    \* the module's HAS_OCR: whether easyocr could be imported
    an,         \* an[r]: the analyzer of run r, its arguments and its outcome
    spec_file,  \* the file at the path given to SpecParser.load
    loaded,     \* what load did: the exception it raised or the UISpec it returned
    lstage,     \* "given" or "loaded"
    generation, \* a call of CodeGenerator.generate: what it met and what it did
    extraction, \* a call of HTMLExtractor.extract: its text and what it returned
    rendering,  \* a call of BrowserRenderer.render_and_screenshot, step by step
    conversion, \* a call of SpecConverter.json_to_spec and the load of its spec
    comparison, \* the construction of an ImageComparator
    command     \* a command handler of the command line and its exit status

vars == <<width, height, regions, target, contours, elements, stage,
          pixels, n_colors, labels, centers, palette, pstage,
          rgb_in, hex_out, hstage, HAS_OCR, an,
          spec_file, loaded, lstage,
          generation, extraction, rendering, conversion, comparison, command>>

structVars == <<width, height, regions, target, contours, elements, stage>>
paletteVars == <<pixels, n_colors, labels, centers, palette, pstage>>
hexVars == <<rgb_in, hex_out, hstage>>
analyzeVars == <<HAS_OCR, an>>
parserVars == <<spec_file, loaded, lstage>>
toolVars == <<generation, extraction, rendering, conversion, comparison, command>>

\* The variables of the runs that came after the structure and palette runs.
extVars == <<hexVars, analyzeVars, parserVars, toolVars>>

\* What the formatting runs, the analysis runs and the parser runs leave alone.
hexOthers == <<structVars, paletteVars, analyzeVars, parserVars, toolVars>>
analyzeOthers == <<structVars, paletteVars, hexVars, parserVars, toolVars>>
parserOthers == <<structVars, paletteVars, hexVars, analyzeVars, toolVars>>

\* What the runs of the generators, the comparator and the command line
\* leave alone.
coreVars == <<structVars, paletteVars, hexVars, analyzeVars, parserVars>>

HexIdle == rgb_in = <<>> /\ hex_out = <<>> /\ hstage = "idle"

\* The runs of the analyze command that may go on in one process.
Runs == {1, 2}

\* A run that does not take place.
no_run == [pc |-> "idle"]

AnalyzeIdle == HAS_OCR = FALSE /\ an = [r \in Runs |-> no_run]

ParserIdle == spec_file = <<>> /\ loaded = <<>> /\ lstage = "idle"

\* A call that does not take place.
no_call == [pc |-> "idle"]

ToolsIdle ==
    /\ generation = no_call /\ extraction = no_call /\ rendering = no_call
    /\ conversion = no_call /\ comparison = no_call /\ command = no_call

ExtIdle == HexIdle /\ AnalyzeIdle /\ ParserIdle /\ ToolsIdle

(***************************************************************************)
(* Bounds of the model.                                                    *)
(***************************************************************************)
MaxW == 2           \* image widths 1..MaxW in the segmentation runs
MaxH == 60          \* image heights 1..MaxH in the segmentation runs
MaxContours == 1    \* contours cv2.findContours reports in one call
MaxPixels == 4      \* pixels of an image in the palette runs
MaxK == 3           \* n_colors in the palette runs

\* Image sizes of the element detection runs: a toolbar too low for any
\* element (113), the lowest that admits one (114), one that admits every
\* class (320); a region too narrow (22), the narrowest that admits an
\* element (23), and two that admit a horizontal group.
ElementWidths == {22, 23, 50, 52}
ElementHeights == {113, 114, 320}

\* Colours the model's images are made of, as (r, g, b).
PixelColors == {<<255, 0, 0>>, <<16, 32, 48>>}

(***************************************************************************)
(* Program constants.                                                      *)
(***************************************************************************)
TOP_BAND_PCT == 15      \* top_band = self.height * 0.15
BOTTOM_BAND_PCT == 85   \* bottom_band = self.height * 0.85
MIN_WIDTH == 20         \* if cw < 20 ...
MIN_HEIGHT == 15        \* ... or ch < 15
MAX_SIZE_PCT == 90      \* if cw > w * 0.9 or ch > h * 0.9
CHANNEL_MAX == 255      \* rgb: RGB color tuple (r, g, b) with values 0-255

(***************************************************************************)
(* rgb_to_hex: f"#{r:02x}{g:02x}{b:02x}".  A string is a sequence of       *)
(* one-character strings.                                                  *)
(***************************************************************************)
HexChars == <<"0", "1", "2", "3", "4", "5", "6", "7",
              "8", "9", "a", "b", "c", "d", "e", "f">>

RECURSIVE HexDigits_reversed(_)
\* HexDigits with the least significant digit first.
HexDigits_reversed(n) ==
    IF n < 16 THEN <<HexChars[n + 1]>>
    ELSE <<HexChars[(n % 16) + 1]>> \o HexDigits_reversed(n \div 16)

RECURSIVE HexDigits(_)
\* format(n, "x"): the hexadecimal digits of n >= 0, most significant first.
HexDigits(n) ==
    IF n < 16 THEN <<HexChars[n + 1]>>
    ELSE HexDigits(n \div 16) \o <<HexChars[(n % 16) + 1]>>

\* format(n, "x"): no padding.
Hex02_nopad(n) == HexDigits(n)

\* format(n, "02x"): at least two digits, padded with zeros on the left.
Hex02(n) ==
    LET d == HexDigits(n) IN IF Len(d) < 2 THEN <<"0">> \o d ELSE d

rgb_to_hex(rgb) == <<"#">> \o Hex02(rgb[1]) \o Hex02(rgb[2]) \o Hex02(rgb[3])

(***************************************************************************)
(* _get_region_color: the average colour is the crop resized to 1x1, the   *)
(* dominant colour the most common colour of the crop resized to 50x50.    *)
(* Both depend on the pixels of the crop alone, so for an image that is    *)
(* not given pixel by pixel they are any two colours.                      *)
(***************************************************************************)
get_region_color ==
    {[dominant |-> rgb_to_hex(d), average |-> rgb_to_hex(a)] :
        d \in PixelColors, a \in {<<16, 32, 48>>}}

(***************************************************************************)
(* detect_regions.  The products self.height * 0.15 and self.height * 0.85 *)
(* are doubles; here they are kept exactly, in hundredths of a pixel.  For *)
(* every height from 1 to 200000 the double expressions int(top_band),     *)
(* int(bottom_band), int(bottom_band - top_band) and                       *)
(* int(self.height - bottom_band) truncate to the same integers as the     *)
(* exact values do.                                                        *)
(***************************************************************************)
top_band(h) == h * TOP_BAND_PCT
bottom_band(h) == h * BOTTOM_BAND_PCT

\* A variant of int100 that rounds to the nearest integer.
int100_rounded(x) == (x + 50) \div 100

\* int(x) of a non-negative x given in hundredths
int100(x) == x \div 100

\* One entry of the list detect_regions builds.
band(type, y, w, band_height, colors) ==
    [type |-> type,
     bounds |-> [x |-> 0, y |-> y, width |-> w, height |-> band_height],
     background_color |-> colors.dominant,
     avg_color |-> colors.average]

\* detect_regions that leaves out a band of no height.
detect_regions_nonempty(w, h, top_colors, middle_colors, bottom_colors) ==
    SelectSeq(
        << band("toolbar", 0, w, int100(top_band(h)), top_colors),
           band("content", int100(top_band(h)), w,
                int100(bottom_band(h) - top_band(h)), middle_colors),
           band("status_bar", int100(bottom_band(h)), w,
                int100(100 * h - bottom_band(h)), bottom_colors) >>,
        LAMBDA r : r.bounds.height > 0)

detect_regions(w, h, top_colors, middle_colors, bottom_colors) ==
    << band("toolbar", 0, w, int100(top_band(h)), top_colors),
       band("content", int100(top_band(h)), w,
            int100(bottom_band(h) - top_band(h)), middle_colors),
       band("status_bar", int100(bottom_band(h)), w,
            int100(100 * h - bottom_band(h)), bottom_colors) >>

(***************************************************************************)
(* detect_ui_elements.                                                     *)
(***************************************************************************)
\* The aspect ratio cw / ch is a double; 3, 1.5 and 0.5 are doubles exactly
\* and cw, ch are small integers, so each comparison is the comparison of
\* the exact quotient, written here without division.
\* classify with the first test written aspect_ratio >= 3.
classify_ge3(cw, ch) ==
    IF cw >= 3 * ch THEN "horizontal_group"
    ELSE IF 2 * cw >= 3 * ch /\ cw <= 3 * ch THEN "button"
    ELSE IF 2 * cw >= ch /\ 2 * cw < 3 * ch THEN "button"
    ELSE IF 2 * cw < ch THEN "vertical_group"
    ELSE "container"

classify(cw, ch) ==
    IF cw > 3 * ch THEN "horizontal_group"
    ELSE IF 2 * cw >= 3 * ch /\ cw <= 3 * ch THEN "button"
    ELSE IF 2 * cw >= ch /\ 2 * cw < 3 * ch THEN "button"
    ELSE IF 2 * cw < ch THEN "vertical_group"
    ELSE "container"

\* The noise filter written with "and".
is_noise_both(cw, ch) == cw < MIN_WIDTH /\ ch < MIN_HEIGHT

\* if cw < 20 or ch < 15: continue
is_noise(cw, ch) == cw < MIN_WIDTH \/ ch < MIN_HEIGHT

\* The size filter with the test of the height left out.
is_too_large_width(cw, ch, w, h) == 100 * cw > MAX_SIZE_PCT * w

\* if cw > w * 0.9 or ch > h * 0.9: continue.  For every w up to 3000 the
\* double comparison cw > w * 0.9 agrees with the exact one.
is_too_large(cw, ch, w, h) ==
    100 * cw > MAX_SIZE_PCT * w \/ 100 * ch > MAX_SIZE_PCT * h

\* make_element that leaves the rectangle in region-local coordinates.
make_element_local(region, c, colors) ==
    [type |-> classify(c.w, c.h),
     bounds |-> [x |-> c.x, y |-> c.y, width |-> c.w, height |-> c.h],
     background_color |-> colors.dominant,
     text |-> ""]

\* The element built for one contour rectangle c that passed the filters.
make_element(region, c, colors) ==
    [type |-> classify(c.w, c.h),
     bounds |-> [x |-> region.bounds.x + c.x, y |-> region.bounds.y + c.y,
                 width |-> c.w, height |-> c.h],
     background_color |-> colors.dominant,
     text |-> ""]

RECURSIVE detect_ui_elements(_, _, _)
\* The loop over the contours: cs are their bounding rectangles in
\* discovery order, colors[i] is what _get_region_color gives for the crop
\* of cs[i].
detect_ui_elements(region, cs, colors) ==
    IF cs = <<>> THEN <<>>
    ELSE LET c == Head(cs)
             rest == detect_ui_elements(region, Tail(cs), Tail(colors))
         IN IF is_noise(c.w, c.h) THEN rest
            ELSE IF is_too_large(c.w, c.h, region.bounds.width,
                                 region.bounds.height) THEN rest
            ELSE <<make_element(region, c, Head(colors))>> \o rest

\* cv2.boundingRect of a contour found in a w x h array: a rectangle of at
\* least one pixel that lies in the array.  The sizes are the ones around
\* the thresholds of the filters and of the classification, and the size of
\* the array itself; each is placed in the top left or bottom right corner.
ContourSizes(w, h) ==
    { <<19, 15>>, <<20, 14>>, <<20, 15>>, <<30, 20>>, <<44, 15>>, <<45, 15>>,
      <<46, 15>>, <<47, 15>>, <<20, 39>>, <<20, 40>>, <<20, 41>>, <<20, 44>>,
      <<w, h>> }

BoundingRects(w, h) ==
    { [x |-> p[1], y |-> p[2], w |-> s[1], h |-> s[2]] :
        <<s, p>> \in { <<s, p>> \in ContourSizes(w, h) \X ((0 .. w) \X (0 .. h)) :
                        /\ s[1] >= 1 /\ s[2] >= 1
                        /\ s[1] <= w /\ s[2] <= h
                        /\ p \in {<<0, 0>>, <<w - s[1], h - s[2]>>} } }

RECURSIVE SeqsUpTo(_, _)
\* The sequences over S of length at most n
SeqsUpTo(S, n) ==
    IF n = 0 THEN {<<>>}
    ELSE LET shorter == SeqsUpTo(S, n - 1)
         IN shorter \cup {Append(s, x) : s \in {t \in shorter : Len(t) = n - 1}, x \in S}

(***************************************************************************)
(* Actions on the image structure.                                         *)
(***************************************************************************)
DetectRegions ==
    /\ stage = "loaded"
    /\ \E tc \in get_region_color, mc \in get_region_color, bc \in get_region_color :
          regions' = detect_regions(width, height, tc, mc, bc)
    /\ stage' = "segmented"
    /\ UNCHANGED <<width, height, target, contours, elements>>
    /\ UNCHANGED paletteVars
    /\ UNCHANGED extVars

DetectUIElements ==
    /\ stage = "segmented"
    /\ \E r \in 1 .. Len(regions) :
          \E cs \in SeqsUpTo(BoundingRects(regions[r].bounds.width,
                                           regions[r].bounds.height), MaxContours) :
             \E colors \in [1 .. Len(cs) -> get_region_color] :
                /\ target' = r
                /\ contours' = cs
                /\ elements' = detect_ui_elements(regions[r], cs, colors)
    /\ stage' = "detected"
    /\ UNCHANGED <<width, height, regions>>
    /\ UNCHANGED paletteVars
    /\ UNCHANGED extVars

PaletteIdle ==
    /\ pixels = <<>> /\ n_colors = 0 /\ labels = <<>> /\ centers = <<>>
    /\ palette = <<>> /\ pstage = "idle"

\* The segmentation runs: every image size up to MaxW x MaxH.
InitRegions ==
    /\ width \in 1 .. MaxW
    /\ height \in 1 .. MaxH
    /\ regions = <<>> /\ target = 0 /\ contours = <<>> /\ elements = <<>>
    /\ stage = "loaded"
    /\ PaletteIdle
    /\ ExtIdle

SpecRegions == InitRegions /\ [][DetectRegions]_vars

\* The element detection runs: detect_regions, then detect_ui_elements on
\* one of the regions it returned.
InitElements ==
    /\ width \in ElementWidths
    /\ height \in ElementHeights
    /\ regions = <<>> /\ target = 0 /\ contours = <<>> /\ elements = <<>>
    /\ stage = "loaded"
    /\ PaletteIdle
    /\ ExtIdle

NextElements == DetectRegions \/ DetectUIElements

SpecElements == InitElements /\ [][NextElements]_vars

(***************************************************************************)
(* get_dominant_colors.                                                    *)
(***************************************************************************)
\* cv2.imread gives the channels of a pixel in the order blue, green, red.
bgr(p) == <<p[3], p[2], p[1]>>

\* self.cv_image.reshape(-1, 3): the pixels in raster order, each <<b, g, r>>.
cv_pixels(px) == [i \in 1 .. Len(px) |-> bgr(px[i])]

RECURSIVE channel_sum(_, _, _)
\* The sum of channel j over the pixels whose index is in S.
channel_sum(px, S, j) ==
    IF S = {} THEN 0
    ELSE LET i == CHOOSE i \in S : TRUE
         IN px[i][j] + channel_sum(px, S \ {i}, j)

\* The pixels cv2.kmeans labelled i.
members(lab, i) == {n \in DOMAIN lab : lab[n] = i}

\* cv2.kmeans(pixels, K, None, criteria, 10, KMEANS_PP_CENTERS) on N pixels
\* with K <= N: labels give every pixel a cluster index in 0 .. K-1, and
\* centers has K rows.  The row of a cluster that has pixels is their mean,
\* kept here as the channel sums and the count; the row of a cluster that
\* has none is some colour.  The interface promises nothing more about the
\* labelling, which depends on the random seeding, so it is any labelling:
\* a cluster may be left without pixels.
kmeans(px, K) ==
    { [labels |-> lab,
       centers |-> [i \in 1 .. K |->
                      IF members(lab, i - 1) # {}
                      THEN [sum |-> [j \in 1 .. 3 |->
                                       channel_sum(px, members(lab, i - 1), j)],
                            count |-> Cardinality(members(lab, i - 1))]
                      ELSE [sum |-> bgr(fill[i]), count |-> 1]]] :
        lab \in [1 .. Len(px) -> 0 .. K - 1], fill \in [1 .. K -> PixelColors] }

\* np.sum(labels == i) read with the cluster indices counted from 1.
cluster_size_from_one(lab, i) == Cardinality(members(lab, i + 1))

\* np.sum(labels == i)
cluster_size(lab, i) == Cardinality(members(lab, i))

\* tuple(int(c) for c in center): each channel of the mean, truncated.  The
\* channels stay in the order of the centre's row, blue first.
center_tuple(center) == [j \in 1 .. 3 |-> center.sum[j] \div center.count]

\* The entry appended for cluster i (counted from 0).  The frequency
\* np.sum(labels == i) / len(labels) is kept as the fraction num / den.
color_entry(lab, cen, i) ==
    LET rgb == center_tuple(cen[i + 1])
    IN [hex |-> rgb_to_hex(rgb),
        rgb |-> rgb,
        frequency |-> [num |-> cluster_size(lab, i), den |-> Len(lab)]]

\* The list colors before it is sorted: one entry per row of centers.
cluster_colors(lab, cen) == [i \in 1 .. Len(cen) |-> color_entry(lab, cen, i - 1)]

\* Two frequencies with the same denominator compare as their numerators.
freq_less(a, b) == a.frequency.num * b.frequency.den < b.frequency.num * a.frequency.den

RECURSIVE insert_desc_unstable(_, _)
\* insert_desc that puts the entry before the entries of equal frequency.
insert_desc_unstable(s, c) ==
    IF s = <<>> THEN <<c>>
    ELSE IF freq_less(c, Head(s)) THEN <<Head(s)>> \o insert_desc_unstable(Tail(s), c)
    ELSE <<c>> \o s

RECURSIVE insert_desc(_, _)
\* c put into the descending list s behind every entry that is not smaller.
insert_desc(s, c) ==
    IF s = <<>> THEN <<c>>
    ELSE IF freq_less(Head(s), c) THEN <<c>> \o s
    ELSE <<Head(s)>> \o insert_desc(Tail(s), c)

RECURSIVE sorted_desc(_, _)
\* sorted(colors, key=lambda x: x['frequency'], reverse=True): the sort is
\* stable, and with reverse=True entries of equal key keep their order.
\* acc is the sorted list of the entries taken so far.
sorted_desc(colors, acc) ==
    IF colors = <<>> THEN acc
    ELSE sorted_desc(Tail(colors), insert_desc(acc, Head(colors)))

get_dominant_colors(lab, cen) == sorted_desc(cluster_colors(lab, cen), <<>>)

(***************************************************************************)
(* Actions of the palette runs.                                            *)
(***************************************************************************)
\* get_dominant_colors(n_colors).  cv2.kmeans raises when it is asked for
\* more clusters than there are pixels.
GetDominantColors ==
    /\ pstage = "loaded"
    /\ IF n_colors > Len(pixels)
       THEN /\ pstage' = "raised"
            /\ UNCHANGED <<labels, centers, palette>>
       ELSE \E km \in kmeans(cv_pixels(pixels), n_colors) :
               /\ labels' = km.labels
               /\ centers' = km.centers
               /\ palette' = get_dominant_colors(km.labels, km.centers)
               /\ pstage' = "clustered"
    /\ UNCHANGED <<pixels, n_colors>>
    /\ UNCHANGED structVars
    /\ UNCHANGED extVars

StructIdle ==
    /\ width = 0 /\ height = 0 /\ regions = <<>> /\ target = 0
    /\ contours = <<>> /\ elements = <<>> /\ stage = "idle"

\* The palette runs: every image of at most MaxPixels pixels over
\* PixelColors, every n_colors up to MaxK.
InitPalette ==
    /\ pixels \in UNION {[1 .. n -> PixelColors] : n \in 1 .. MaxPixels}
    /\ n_colors \in 1 .. MaxK
    /\ labels = <<>> /\ centers = <<>> /\ palette = <<>>
    /\ pstage = "loaded"
    /\ StructIdle
    /\ ExtIdle

SpecPalette == InitPalette /\ [][GetDominantColors]_vars

(***************************************************************************)
(* The colour formatting runs: rgb_to_hex on one colour.  The red channel  *)
(* takes every value, the green and blue channels the values around the    *)
(* one-digit / two-digit boundary and the ends of the range.               *)
(***************************************************************************)
EdgeChannels == {0, 10, 15, 16, CHANNEL_MAX}

RgbToHex ==
    /\ hstage = "given"
    /\ hex_out' = rgb_to_hex(rgb_in)
    /\ hstage' = "formatted"
    /\ UNCHANGED rgb_in
    /\ UNCHANGED hexOthers

InitHex ==
    /\ rgb_in \in (0 .. CHANNEL_MAX) \X EdgeChannels \X EdgeChannels
    /\ hex_out = <<>>
    /\ hstage = "given"
    /\ StructIdle
    /\ PaletteIdle
    /\ AnalyzeIdle
    /\ ParserIdle
    /\ ToolsIdle

SpecHex == InitHex /\ [][RgbToHex]_vars

(***************************************************************************)
(* The analysis runs: the analyze command of the command line builds a     *)
(* UXAnalyzer, calls save_json, which calls analyze and writes its result, *)
(* and optionally visualize.  Each run r has its own analyzer an[r]; the   *)
(* module-level HAS_OCR is the one thing the runs of a process have in     *)
(* common.  analyze is taken stage by stage, as the stages of two runs may *)
(* alternate.                                                              *)
(*                                                                         *)
(* The image of a run is not given pixel by pixel but by what the          *)
(* libraries read from it: whether it can be opened, its size, the         *)
(* bounding rectangles of the contours in its toolbar band, and its        *)
(* colour.  What the environment of the run does is part of its input as   *)
(* well: how text recognition behaves, and which library call, if any,     *)
(* raises.                                                                 *)
(***************************************************************************)
N_COLORS == 10          \* colors = self.get_dominant_colors(10)

\* Image.open raises FileNotFoundError for a path that does not resolve and
\* UnidentifiedImageError for a file it cannot decode; cv2.imread returns
\* None for a file it cannot decode, and cv2.cvtColor then raises cv2.error.
\* load_image that reports an undecodable file as a missing one.
load_image_one_kind(file) ==
    IF file = "image" THEN "none" ELSE "FileNotFoundError"

load_image(file) ==
    CASE file = "missing" -> "FileNotFoundError"
      [] file = "undecodable" -> "UnidentifiedImageError"
      [] file = "unreadable" -> "cv2.error"
      [] OTHER -> "none"

\* The constructor's handling of OCR that clears the module's HAS_OCR when
\* the reader cannot be built.
init_ocr_global(has, use_ocr, reader_ok) ==
    [HAS_OCR |-> has /\ (~use_ocr \/ reader_ok),
     use_ocr |-> use_ocr /\ has /\ reader_ok,
     ocr_reader |-> use_ocr /\ has /\ reader_ok]

\* self.use_ocr = use_ocr and HAS_OCR; a reader is built when use_ocr
\* holds, and when easyocr.Reader raises use_ocr is set to False.
init_ocr(has, use_ocr, reader_ok) ==
    [HAS_OCR |-> has,
     use_ocr |-> use_ocr /\ has /\ reader_ok,
     ocr_reader |-> use_ocr /\ has /\ reader_ok]

\* The lists get_dominant_colors(10) may return for an image of w x h
\* pixels of colour c.  The labelling of cv2.kmeans depends on its random
\* seeding; here it gives the first cluster all the pixels, or all but one
\* for each other cluster.  The list has ten entries in descending order of
\* frequency.
analyze_colors(w, h, c) ==
    { [i \in 1 .. N_COLORS |->
        [hex |-> rgb_to_hex(bgr(c)),
         rgb |-> bgr(c),
         frequency |-> [num |-> IF i = 1 THEN w * h - spread * (N_COLORS - 1)
                                 ELSE spread,
                        den |-> w * h]]] : spread \in {0, 1} }

\* What _get_region_color returns for a crop of an image of colour c.
region_colors(c) ==
    CHOOSE rc \in get_region_color : rc.dominant = rgb_to_hex(c)

\* The loop of analyze over the regions with the test of the type left out.
attach_elements_all(regs, cs, c) ==
    [i \in 1 .. Len(regs) |->
        regs[i] @@ ("elements" :>
            detect_ui_elements(regs[i], cs, [k \in 1 .. Len(cs) |-> region_colors(c)]))]

\* for region in regions: if region["type"] == "toolbar":
\*     region["elements"] = self.detect_ui_elements(region)
\* cs are the contours of the toolbar band.
attach_elements(regs, cs, c) ==
    [i \in 1 .. Len(regs) |->
        IF regs[i].type = "toolbar"
        THEN regs[i] @@ ("elements" :>
                detect_ui_elements(regs[i], cs, [k \in 1 .. Len(cs) |-> region_colors(c)]))
        ELSE regs[i]]

\* The smallest and the largest of a non-empty set of numbers.
Min(S) == CHOOSE x \in S : \A y \in S : x <= y
Max(S) == CHOOSE x \in S : \A y \in S : x >= y

\* The entry extract_text appends for a detection (bbox, text, confidence).
to_text_element(d) ==
    LET xs == {d.bbox[k][1] : k \in 1 .. Len(d.bbox)}
        ys == {d.bbox[k][2] : k \in 1 .. Len(d.bbox)}
    IN [text |-> d.text,
        confidence |-> d.confidence,
        bounds |-> [x |-> Min(xs), y |-> Min(ys),
                    width |-> Max(xs) - Min(xs), height |-> Max(ys) - Min(ys)]]

\* The detections readtext returns in the runs where it finds text.
Detections ==
    << [bbox |-> <<<<10, 5>>, <<50, 5>>, <<50, 20>>, <<10, 20>>>>,
        text |-> "File", confidence |-> 93] >>

\* extract_text without its try block.
extract_text_unguarded(use_ocr, ocr_reader, ocr) ==
    IF ~use_ocr \/ ~ocr_reader THEN [raised |-> FALSE, value |-> <<>>]
    ELSE CASE ocr = "raises" -> [raised |-> TRUE, value |-> <<>>]
           [] ocr = "bad_detection" -> [raised |-> TRUE, value |-> <<>>]
           [] ocr = "reads_none" -> [raised |-> FALSE, value |-> <<>>]
           [] OTHER -> [raised |-> FALSE,
                        value |-> [k \in 1 .. Len(Detections) |->
                                     to_text_element(Detections[k])]]

\* extract_text: [] without a reader; otherwise the converted detections,
\* or [] when readtext or the conversion of a detection raises.
extract_text(use_ocr, ocr_reader, ocr) ==
    IF ~use_ocr \/ ~ocr_reader THEN [raised |-> FALSE, value |-> <<>>]
    ELSE CASE ocr = "raises" -> [raised |-> FALSE, value |-> <<>>]
           [] ocr = "bad_detection" -> [raised |-> FALSE, value |-> <<>>]
           [] ocr = "reads_none" -> [raised |-> FALSE, value |-> <<>>]
           [] OTHER -> [raised |-> FALSE,
                        value |-> [k \in 1 .. Len(Detections) |->
                                     to_text_element(Detections[k])]]

\* The dictionary analyze returns.
build_result(path, w, h, colors, regs, texts) ==
    [metadata |-> [source |-> path, dimensions |-> [width |-> w, height |-> h]],
     colors |-> colors,
     regions |-> regs,
     text_elements |-> texts]

\* str(e) of the exceptions of the model.
exc_text(exc) ==
    CASE exc = "FileNotFoundError" -> "No such file or directory"
      [] exc = "UnidentifiedImageError" -> "cannot identify image file"
      [] OTHER -> "OpenCV error"

\* except FileNotFoundError: "Error: Image file not found: {args.image}"
\* except Exception as e: "Error: {e}"
error_message(exc, path) ==
    IF exc = "FileNotFoundError"
    THEN <<"Error: Image file not found: ", path>>
    ELSE <<"Error: ", exc_text(exc)>>

\* save_json that opens the output file before it calls analyze.
out_on_entry_opened(f) == "empty"

\* The output file when save_json has called analyze: not opened yet.
out_on_entry(f) == f

\* The analyzer of a run before the constructor has run.
new_analyzer(inp) ==
    [inp |-> inp, pc |-> "start",
     use_ocr |-> FALSE, ocr_reader |-> FALSE, width |-> 0, height |-> 0,
     colors |-> <<>>, regions |-> <<>>, text_elements |-> <<>>,
     result |-> <<>>, stages |-> <<>>,
     exc |-> "none", failed_in |-> "none",
     out_file |-> inp.out_file, vis_file |-> "absent",
     status |-> -1, message |-> <<>>]

raise(a, exc, where) == [a EXCEPT !.pc = "raised", !.exc = exc, !.failed_in = where]

\* UXAnalyzer(args.image, use_ocr=not args.no_ocr)
Construct(r) ==
    /\ an[r].pc = "start"
    /\ LET a == an[r]
           exc == load_image(a.inp.file)
           o == init_ocr(HAS_OCR, ~a.inp.no_ocr, a.inp.ocr # "init_fails")
       IN IF exc # "none"
          THEN /\ an' = [an EXCEPT ![r] = raise(a, exc, "load")]
               /\ UNCHANGED HAS_OCR
          ELSE /\ an' = [an EXCEPT ![r] =
                            [a EXCEPT !.pc = "constructed",
                                      !.width = a.inp.size[1],
                                      !.height = a.inp.size[2],
                                      !.use_ocr = o.use_ocr,
                                      !.ocr_reader = o.ocr_reader]]
               /\ HAS_OCR' = o.HAS_OCR
    /\ UNCHANGED analyzeOthers

\* save_json calls analyze; its first stage is get_dominant_colors(10),
\* where cv2.kmeans raises for an image of fewer than ten pixels.
AnalyzePalette(r) ==
    /\ an[r].pc = "constructed"
    /\ LET a == [an[r] EXCEPT !.out_file = out_on_entry(@),
                              !.stages = Append(@, "palette")]
       IN IF a.width * a.height < N_COLORS \/ a.inp.fault = "palette"
          THEN an' = [an EXCEPT ![r] = raise(a, "cv2.error", "palette")]
          ELSE \E colors \in analyze_colors(a.width, a.height, a.inp.color) :
                  an' = [an EXCEPT ![r] =
                            [a EXCEPT !.pc = "palette", !.colors = colors]]
    /\ UNCHANGED <<HAS_OCR, analyzeOthers>>

\* regions = self.detect_regions()
AnalyzeRegions(r) ==
    /\ an[r].pc = "palette"
    /\ LET a == [an[r] EXCEPT !.stages = Append(@, "regions")]
           rc == region_colors(a.inp.color)
       IN an' = [an EXCEPT ![r] =
                    IF a.inp.fault = "regions"
                    THEN raise(a, "cv2.error", "regions")
                    ELSE [a EXCEPT !.pc = "regions",
                                   !.regions = detect_regions(a.width, a.height,
                                                              rc, rc, rc)]]
    /\ UNCHANGED <<HAS_OCR, analyzeOthers>>

\* The loop over the regions that calls detect_ui_elements.
AnalyzeElements(r) ==
    /\ an[r].pc = "regions"
    /\ LET a == [an[r] EXCEPT !.stages = Append(@, "elements")]
       IN an' = [an EXCEPT ![r] =
                    IF a.inp.fault = "elements"
                    THEN raise(a, "cv2.error", "elements")
                    ELSE [a EXCEPT !.pc = "elements",
                                   !.regions = attach_elements(a.regions,
                                                   a.inp.contours, a.inp.color)]]
    /\ UNCHANGED <<HAS_OCR, analyzeOthers>>

\* A variant of AnalyzeText that may run as soon as the palette is there.
AnalyzeText_early(r) ==
    /\ an[r].pc \in {"palette", "elements"}
    /\ LET a == [an[r] EXCEPT !.stages = Append(@, "text")]
           t == extract_text(a.use_ocr, a.ocr_reader, a.inp.ocr)
       IN an' = [an EXCEPT ![r] =
                    IF t.raised
                    THEN raise(a, "RuntimeError", "text")
                    ELSE [a EXCEPT !.pc = "text", !.text_elements = t.value]]
    /\ UNCHANGED <<HAS_OCR, analyzeOthers>>

\* text_elements = self.extract_text()
AnalyzeText(r) ==
    /\ an[r].pc = "elements"
    /\ LET a == [an[r] EXCEPT !.stages = Append(@, "text")]
           t == extract_text(a.use_ocr, a.ocr_reader, a.inp.ocr)
       IN an' = [an EXCEPT ![r] =
                    IF t.raised
                    THEN raise(a, "RuntimeError", "text")
                    ELSE [a EXCEPT !.pc = "text", !.text_elements = t.value]]
    /\ UNCHANGED <<HAS_OCR, analyzeOthers>>

\* result = {...}; return result
AnalyzeBuild(r) ==
    /\ an[r].pc = "text"
    /\ LET a == an[r]
       IN an' = [an EXCEPT ![r] =
                    [a EXCEPT !.pc = "analyzed",
                              !.stages = Append(@, "result"),
                              !.result = build_result(a.inp.path, a.width, a.height,
                                             a.colors, a.regions, a.text_elements)]]
    /\ UNCHANGED <<HAS_OCR, analyzeOthers>>

\* with output.open('w') as f: json.dump(result, f, indent=2)
SaveJson(r) ==
    /\ an[r].pc = "analyzed"
    /\ an' = [an EXCEPT ![r] = [@ EXCEPT !.pc = "saved", !.out_file = an[r].result]]
    /\ UNCHANGED <<HAS_OCR, analyzeOthers>>

\* if args.visualize: analyzer.visualize(args.visualize).  visualize calls
\* analyze once more and saves the annotated image.
Visualize(r) ==
    /\ an[r].pc = "saved"
    /\ an[r].inp.visualize
    /\ LET a == an[r]
       IN an' = [an EXCEPT ![r] =
                    IF a.inp.fault = "visualize"
                    THEN raise(a, "cv2.error", "visualize")
                    ELSE [a EXCEPT !.pc = "visualized", !.vis_file = "written"]]
    /\ UNCHANGED <<HAS_OCR, analyzeOthers>>

\* return 0
ReturnOk(r) ==
    /\ \/ an[r].pc = "saved" /\ ~an[r].inp.visualize
       \/ an[r].pc = "visualized"
    /\ an' = [an EXCEPT ![r] = [@ EXCEPT !.pc = "exited", !.status = 0]]
    /\ UNCHANGED <<HAS_OCR, analyzeOthers>>

\* The except clauses of analyze_command: print the message, return 1.
ReportError(r) ==
    /\ an[r].pc = "raised"
    /\ LET a == an[r]
       IN an' = [an EXCEPT ![r] =
                    [a EXCEPT !.pc = "exited", !.status = 1,
                              !.message = error_message(a.exc, a.inp.path)]]
    /\ UNCHANGED <<HAS_OCR, analyzeOthers>>

Step(r) ==
    \/ Construct(r) \/ AnalyzePalette(r) \/ AnalyzeRegions(r)
    \/ AnalyzeElements(r) \/ AnalyzeText(r) \/ AnalyzeBuild(r)
    \/ SaveJson(r) \/ Visualize(r) \/ ReturnOk(r) \/ ReportError(r)

NextAnalyze == \E r \in Runs : Step(r)

\* The files of the analysis runs.  An image file has a size, the contours
\* of its toolbar band (which is size[1] wide and int(size[2] * 0.15) high)
\* and a colour; the other files have none of these.
rect(x, y, w, h) == [x |-> x, y |-> y, w |-> w, h |-> h]

image(path, size, cs) ==
    [path |-> path, file |-> "image", size |-> size, contours |-> cs,
     color |-> <<255, 0, 0>>]

broken(path, file) ==
    [path |-> path, file |-> file, size |-> <<0, 0>>, contours |-> <<>>,
     color |-> <<0, 0, 0>>]

\* 200 x 100 with a black rectangle 40 wide across the toolbar band, which
\* is 15 rows high: the contour of the whole rectangle, or of its two sides.
RectImage == image("rect.png", <<200, 100>>, <<rect(80, 0, 40, 15)>>)

ButtonImage == image("button.png", <<50, 320>>, <<rect(10, 14, 30, 20)>>)

AnalyzeFiles ==
    { broken("missing.png", "missing"),
      broken("text.png", "undecodable"),
      broken("anim.gif", "unreadable"),
      image("tiny.png", <<3, 3>>, <<>>),
      image("strip.png", <<200, 6>>, <<>>),
      image("plain.png", <<200, 100>>, <<>>),
      RectImage,
      image("sides.png", <<200, 100>>, <<rect(80, 0, 2, 15), rect(118, 0, 2, 15)>>),
      image("wide.png", <<200, 100>>, <<rect(0, 0, 200, 15)>>),
      image("blank.png", <<50, 320>>, <<>>),
      ButtonImage,
      image("two.png", <<50, 320>>, <<rect(0, 0, 19, 15), rect(25, 4, 20, 41)>>),
      image("full.png", <<50, 320>>, <<rect(0, 0, 50, 48)>>),
      image("narrow.png", <<22, 320>>, <<rect(0, 0, 20, 15), rect(2, 20, 19, 28)>>),
      image("short.png", <<23, 113>>, <<rect(0, 0, 20, 15), rect(3, 0, 20, 16)>>),
      image("least.png", <<23, 114>>, <<rect(0, 0, 20, 15), rect(0, 1, 21, 16)>>) }

\* The arguments and the environment of a run; has_ocr is HAS_OCR as the
\* import of the module left it.  How OCR behaves matters only where a
\* reader is built, and visualize can fail only where it is requested.
RunInputs(files, has) ==
    { f @@ [no_ocr |-> n, visualize |-> v, ocr |-> o, fault |-> x, out_file |-> out,
            has_ocr |-> has] :
        <<f, n, v, o, x, out>> \in
            { t \in files \X BOOLEAN \X BOOLEAN
                    \X {"unused", "init_fails", "raises", "bad_detection",
                        "reads_none", "reads"}
                    \X {"none", "palette", "regions", "elements", "visualize"}
                    \X {"absent", "old"} :
                /\ (t[4] = "unused") <=> (t[2] \/ ~has)
                /\ t[5] = "visualize" => t[3] } }

\* One run of the analyze command, on every file and in every environment.
InitAnalyze ==
    /\ HAS_OCR \in BOOLEAN
    /\ \E inp \in RunInputs(AnalyzeFiles, HAS_OCR) :
          an = [r \in Runs |-> IF r = 1 THEN new_analyzer(inp) ELSE no_run]
    /\ StructIdle /\ PaletteIdle /\ HexIdle /\ ParserIdle /\ ToolsIdle

SpecAnalyze == InitAnalyze /\ [][NextAnalyze]_vars

\* Two runs of the analyze command in one process, on different images,
\* their steps in any order.
TwoRunFiles ==
    { RectImage, ButtonImage, image("tiny.png", <<3, 3>>, <<>>) }

TwoRunInputs(has) ==
    { inp \in RunInputs(TwoRunFiles, has) :
        /\ inp.fault = "none"
        /\ inp.out_file = "absent"
        /\ inp.ocr \in {"unused", "init_fails", "reads"} }

InitTwoRuns ==
    /\ HAS_OCR \in BOOLEAN
    /\ \E i1 \in TwoRunInputs(HAS_OCR), i2 \in TwoRunInputs(HAS_OCR) :
          /\ i1.path # i2.path
          /\ an = [r \in Runs |-> new_analyzer(IF r = 1 THEN i1 ELSE i2)]
    /\ StructIdle /\ PaletteIdle /\ HexIdle /\ ParserIdle /\ ToolsIdle

SpecTwoRuns == InitTwoRuns /\ [][NextAnalyze]_vars

(***************************************************************************)
(* SpecParser (generators/spec_parser.py).  The content yaml.safe_load     *)
(* returns is a Python value: None, a number, a string, a list or a        *)
(* dictionary.  A value is kept with its type t; v is the number, the      *)
(* string, the sequence of the items or the function from keys to values.  *)
(***************************************************************************)
py_none == [t |-> "none", v |-> <<>>]
py_int(n) == [t |-> "int", v |-> n]
py_str(s) == [t |-> "str", v |-> s]
py_list(items) == [t |-> "list", v |-> items]
py_dict(d) == [t |-> "dict", v |-> d]

\* isinstance(x, dict)
is_dict(x) == x.t = "dict"

\* The types on which "k in x" is defined; on the others it raises TypeError.
iterable(x) == x.t \in {"dict", "list", "str"}

\* k in x for a string k: a key of the dictionary, an item of the list, a
\* substring of the string.  No string of the model contains another one
\* properly.
contains(k, x) ==
    CASE x.t = "dict" -> k \in DOMAIN x.v
      [] x.t = "list" -> \E i \in DOMAIN x.v : x.v[i].t = "str" /\ x.v[i].v = k
      [] OTHER -> x.v = k

\* color.startswith('#').  The strings of a palette are kept character by
\* character, as rgb_to_hex builds them.
starts_with_hash(s) == s # <<>> /\ Head(s) = "#"

RECURSIVE keys(_)
\* The keys of a dictionary, one after the other.
keys(d) ==
    IF DOMAIN d = {} THEN <<>>
    ELSE LET k == CHOOSE k \in DOMAIN d : TRUE
         IN <<k>> \o keys([j \in DOMAIN d \ {k} |-> d[j]])

REQUIRED_FIELDS == <<"metadata", "design_intent", "visual_design", "component_structure">>

\* What a step of validate gives: the exception it raised, or the errors it
\* appended.
appended(errors) == [exc |-> "none", errors |-> errors]
raised(exc) == [exc |-> exc, errors |-> <<>>]

\* for field in self.REQUIRED_FIELDS: if field not in spec_data: ...
missing_fields(spec_data) ==
    LET miss == SelectSeq(REQUIRED_FIELDS, LAMBDA f : ~contains(f, spec_data))
    IN [i \in 1 .. Len(miss) |-> <<"Missing required field: ", miss[i]>>]

\* The checks of vd['dimensions'].  vd[...] raises TypeError on a list or a
\* string.
dimensions_errors(vd) ==
    IF ~contains("dimensions", vd)
    THEN appended(<< <<"visual_design missing 'dimensions'">> >>)
    ELSE IF ~is_dict(vd) THEN raised("TypeError")
    ELSE LET dm == vd.v["dimensions"]
         IN IF ~is_dict(dm)
            THEN appended(<< <<"visual_design.dimensions must be a dict">> >>)
            ELSE IF ~contains("width", dm) \/ ~contains("height", dm)
            THEN appended(<< <<"visual_design.dimensions must have 'width' and 'height'">> >>)
            ELSE appended(<<>>)

\* A variant of palette_errors that accepts every string as a colour.
palette_errors_any_str(vd) ==
    IF ~contains("color_palette", vd)
    THEN appended(<< <<"visual_design missing 'color_palette'">> >>)
    ELSE IF ~is_dict(vd) THEN raised("TypeError")
    ELSE LET cp == vd.v["color_palette"]
         IN IF ~is_dict(cp)
            THEN appended(<< <<"visual_design.color_palette must be a dict">> >>)
            ELSE LET bad == SelectSeq(keys(cp.v),
                                LAMBDA name : cp.v[name].t # "str")
                 IN appended([i \in 1 .. Len(bad) |->
                                <<"color_palette must be hex color: ", bad[i]>>])

\* The checks of vd['color_palette'].
palette_errors(vd) ==
    IF ~contains("color_palette", vd)
    THEN appended(<< <<"visual_design missing 'color_palette'">> >>)
    ELSE IF ~is_dict(vd) THEN raised("TypeError")
    ELSE LET cp == vd.v["color_palette"]
         IN IF ~is_dict(cp)
            THEN appended(<< <<"visual_design.color_palette must be a dict">> >>)
            ELSE LET bad == SelectSeq(keys(cp.v),
                                LAMBDA name : \/ cp.v[name].t # "str"
                                              \/ ~starts_with_hash(cp.v[name].v))
                 IN appended([i \in 1 .. Len(bad) |->
                                <<"color_palette must be hex color: ", bad[i]>>])

\* if 'visual_design' in spec_data: vd = spec_data['visual_design'] ...
visual_design_errors(spec_data) ==
    IF ~contains("visual_design", spec_data) THEN appended(<<>>)
    ELSE IF ~is_dict(spec_data) THEN raised("TypeError")
    ELSE LET vd == spec_data.v["visual_design"]
         IN IF ~iterable(vd) THEN raised("TypeError")
            ELSE LET a == dimensions_errors(vd)
                     b == palette_errors(vd)
                 IN IF a.exc # "none" THEN a
                    ELSE IF b.exc # "none" THEN b
                    ELSE appended(a.errors \o b.errors)

\* if 'component_structure' in spec_data: ...
component_structure_errors(spec_data) ==
    IF ~contains("component_structure", spec_data) THEN appended(<<>>)
    ELSE IF ~is_dict(spec_data) THEN raised("TypeError")
    ELSE IF ~is_dict(spec_data.v["component_structure"])
    THEN appended(<< <<"component_structure must be a dict">> >>)
    ELSE appended(<<>>)

\* validate: {'valid': len(errors) == 0, 'errors': errors}, or the
\* exception that left it.
validate(spec_data) ==
    IF ~iterable(spec_data) THEN [exc |-> "TypeError", valid |-> FALSE, errors |-> <<>>]
    ELSE LET a == missing_fields(spec_data)
             b == visual_design_errors(spec_data)
             c == component_structure_errors(spec_data)
         IN IF b.exc # "none" THEN [exc |-> b.exc, valid |-> FALSE, errors |-> <<>>]
            ELSE IF c.exc # "none" THEN [exc |-> c.exc, valid |-> FALSE, errors |-> <<>>]
            ELSE LET errors == a \o b.errors \o c.errors
                 IN [exc |-> "none", valid |-> Len(errors) = 0, errors |-> errors]

\* The exception _build_component raises for comp_data, "none" if it
\* returns: 'elements' in comp_data raises TypeError on None and on a
\* number, comp_data['elements'] on a list or a string that holds
\* 'elements', and comp_data.get raises AttributeError on a list or a
\* string.  Only dictionaries among the elements are built, so a component
\* that is a dictionary is built without an exception.
component_exc(comp_data) ==
    IF ~iterable(comp_data) THEN "TypeError"
    ELSE IF is_dict(comp_data) THEN "none"
    ELSE IF contains("elements", comp_data) THEN "TypeError"
    ELSE "AttributeError"

\* dict.get(key, default)
get(d, key, default) == IF key \in DOMAIN d THEN d[key] ELSE default

RECURSIVE build_component(_)
\* The ComponentSpec _build_component returns for a dictionary.
build_component(comp_data) ==
    LET elems == IF /\ contains("elements", comp_data)
                    /\ comp_data.v["elements"].t = "list"
                 THEN SelectSeq(comp_data.v["elements"].v, is_dict)
                 ELSE <<>>
    IN [type |-> get(comp_data.v, "type", py_str("container")),
        properties |-> comp_data,
        children |-> [i \in 1 .. Len(elems) |-> build_component(elems[i])]]

\* _build_spec for data that validate accepted: the UISpec, or the
\* exception of the first component that cannot be built.
build_spec(data) ==
    LET vd_data == data.v["visual_design"].v
        cs == data.v["component_structure"].v
        failing == SelectSeq(keys(cs), LAMBDA name : component_exc(cs[name]) # "none")
    IN IF failing # <<>>
       THEN [exc |-> component_exc(cs[failing[1]]), errors |-> <<>>, value |-> <<>>]
       ELSE [exc |-> "none", errors |-> <<>>,
             value |-> [metadata |-> data.v["metadata"],
                        design_intent |-> data.v["design_intent"],
                        visual_design |->
                            [dimensions |-> vd_data["dimensions"],
                             color_palette |-> vd_data["color_palette"],
                             spacing |-> get(vd_data, "spacing", py_none),
                             typography |-> get(vd_data, "typography", py_none)],
                        component_structure |->
                            [name \in DOMAIN cs |-> build_component(cs[name])],
                        implementation_notes |->
                            get(data.v, "implementation_notes", py_dict(<<>>))]]

\* load: FileNotFoundError for a path that does not exist; the exception of
\* yaml.safe_load for a file that is not YAML; then validate, ValueError
\* with the errors when it does not accept, and _build_spec when it does.
load(file) ==
    IF ~file.exists
    THEN [exc |-> "FileNotFoundError", errors |-> <<>>, value |-> <<>>]
    ELSE IF ~file.parses
    THEN [exc |-> "YAMLError", errors |-> <<>>, value |-> <<>>]
    ELSE LET v == validate(file.content)
         IN IF v.exc # "none"
            THEN [exc |-> v.exc, errors |-> <<>>, value |-> <<>>]
            ELSE IF ~v.valid
            THEN [exc |-> "ValueError", errors |-> v.errors, value |-> <<>>]
            ELSE build_spec(file.content)

\* The documents of the parser runs, by their shape.
dimensions_value(shape) ==
    CASE shape = "int" -> py_int(1024)
      [] shape = "empty" -> py_dict(<<>>)
      [] shape = "width" -> py_dict("width" :> py_int(1024))
      [] OTHER -> py_dict("width" :> py_int(1024) @@ "height" :> py_int(768))

palette_value(shape) ==
    CASE shape = "list" -> py_list(<<py_str("#ffffff")>>)
      [] shape = "empty" -> py_dict(<<>>)
      [] shape = "hex" -> py_dict("primary" :> py_str(rgb_to_hex(<<43, 87, 154>>)) @@
                                  "background" :> py_str(rgb_to_hex(<<255, 255, 255>>)))
      [] shape = "name" -> py_dict("primary" :> py_str(<<"r", "e", "d">>))
      [] shape = "int" -> py_dict("primary" :> py_int(0))
      [] OTHER -> py_dict("primary" :> py_str(rgb_to_hex(<<43, 87, 154>>)) @@
                          "background" :> py_str(<<"w", "h", "i", "t", "e">>))

with_key(present, key, value) == IF present THEN key :> value ELSE <<>>

visual_design_value(vd) ==
    CASE vd.kind = "none" -> py_none
      [] vd.kind = "int" -> py_int(0)
      [] vd.kind = "list" -> py_list(<<py_str("dimensions"), py_str("color_palette")>>)
      [] OTHER -> py_dict(with_key(vd.dims # "absent", "dimensions",
                                   dimensions_value(vd.dims)) @@
                          with_key(vd.pal # "absent", "color_palette",
                                   palette_value(vd.pal)))

component_structure_value(shape) ==
    CASE shape = "list" -> py_list(<<py_str("toolbar")>>)
      [] shape = "empty" -> py_dict(<<>>)
      [] shape = "plain" -> py_dict("toolbar" :> py_dict("type" :> py_str("toolbar")))
      [] shape = "nested" ->
            py_dict("toolbar" :>
                py_dict("elements" :>
                    py_list(<<py_dict("type" :> py_str("button")), py_str("spacer")>>)))
      [] shape = "null_component" -> py_dict("toolbar" :> py_none)
      [] shape = "str_component" -> py_dict("toolbar" :> py_str("toolbar"))
      [] OTHER -> py_dict("toolbar" :> py_list(<<py_str("elements")>>))

content_value(doc) ==
    CASE doc.top = "none" -> py_none
      [] doc.top = "int" -> py_int(42)
      [] doc.top = "str" -> py_str("visual_design")
      [] doc.top = "list" -> py_list(<<py_str("metadata"), py_str("component_structure")>>)
      [] OTHER ->
            py_dict(with_key(doc.metadata, "metadata", py_dict(<<>>)) @@
                    with_key(doc.intent, "design_intent", py_dict(<<>>)) @@
                    with_key(doc.notes, "implementation_notes", py_dict(<<>>)) @@
                    with_key(doc.vd.kind # "absent", "visual_design",
                             visual_design_value(doc.vd)) @@
                    with_key(doc.cs # "absent", "component_structure",
                             component_structure_value(doc.cs)))

VisualDesignShapes ==
    { vd \in [kind : {"absent", "none", "int", "list", "dict"},
              dims : {"absent", "int", "empty", "width", "both"},
              pal : {"absent", "list", "empty", "hex", "name", "int", "mixed"}] :
        vd.kind # "dict" => vd.dims = "absent" /\ vd.pal = "absent" }

ComponentShapes ==
    {"absent", "list", "empty", "plain", "nested", "null_component",
     "str_component", "list_component"}

DocShapes ==
    { doc \in [top : {"missing", "malformed", "none", "int", "str", "list", "dict"},
               metadata : BOOLEAN, intent : BOOLEAN, notes : BOOLEAN,
               vd : VisualDesignShapes, cs : ComponentShapes] :
        doc.top # "dict" =>
            /\ ~doc.metadata /\ ~doc.intent /\ ~doc.notes
            /\ doc.vd.kind = "absent" /\ doc.cs = "absent" }

file_of(doc) ==
    [exists |-> doc.top # "missing",
     parses |-> doc.top \notin {"missing", "malformed"},
     content |-> IF doc.top \in {"missing", "malformed"} THEN py_none
                 ELSE content_value(doc)]

\* SpecParser().load(spec_path)
Load ==
    /\ lstage = "given"
    /\ loaded' = load(spec_file)
    /\ lstage' = "loaded"
    /\ UNCHANGED spec_file
    /\ UNCHANGED parserOthers

InitParser ==
    /\ \E doc \in DocShapes : spec_file = file_of(doc)
    /\ loaded = <<>>
    /\ lstage = "given"
    /\ StructIdle /\ PaletteIdle /\ HexIdle /\ AnalyzeIdle /\ ToolsIdle

SpecParserRuns == InitParser /\ [][Load]_vars

(***************************************************************************)
(* The claims about detect_regions.                                        *)
(***************************************************************************)
Segmented == stage \in {"segmented", "detected"}

BandHeight(i) == regions[i].bounds.height
BandY(i) == regions[i].bounds.y

\* C1: the heights of the three bands detect_regions returns sum exactly to
\* the image height.
C1_HeightsSumToImageHeight ==
    Segmented => BandHeight(1) + BandHeight(2) + BandHeight(3) = height

\* C2: the three bounds tile the image: each band spans the full width,
\* the toolbar starts at row 0, each band starts where the one above it
\* ends, and the status bar ends at the last row.
C2_BandsTileImage ==
    Segmented =>
        /\ \A i \in 1 .. 3 : regions[i].bounds.x = 0 /\ regions[i].bounds.width = width
        /\ BandY(1) = 0
        /\ BandY(2) = BandY(1) + BandHeight(1)
        /\ BandY(3) = BandY(2) + BandHeight(2)
        /\ BandY(3) + BandHeight(3) = height

\* C3: detect_regions returns exactly three regions, in the order toolbar,
\* content, status_bar, whatever the image size and the colours sampled.
C3_ThreeRegionsInOrder ==
    Segmented =>
        /\ Len(regions) = 3
        /\ regions[1].type = "toolbar"
        /\ regions[2].type = "content"
        /\ regions[3].type = "status_bar"

\* A segmented image so low that the toolbar band has no rows, whose bands
\* were sampled with different colours.
C3_Witness ==
    /\ stage = "segmented"
    /\ Len(regions) = 3
    /\ regions[1].bounds.height = 0
    /\ regions[1].background_color # regions[2].background_color

(***************************************************************************)
(* The claims about detect_ui_elements.                                    *)
(***************************************************************************)
Detected == stage = "detected"

ElemW(i) == elements[i].bounds.width
ElemH(i) == elements[i].bounds.height

\* C4: the class of an emitted rectangle is decided by its ratio
\* width / height alone: above 3 a horizontal_group, from 0.5 to 3 (both
\* included, and so 1.5 too) a button, below 0.5 a vertical_group; no
\* rectangle is left to the fallback class.
C4_ClassificationTotal ==
    Detected =>
        \A i \in 1 .. Len(elements) :
            /\ elements[i].type \in {"horizontal_group", "button", "vertical_group"}
            /\ (ElemW(i) > 3 * ElemH(i)) <=> (elements[i].type = "horizontal_group")
            /\ (2 * ElemW(i) >= ElemH(i) /\ ElemW(i) <= 3 * ElemH(i))
                   <=> (elements[i].type = "button")
            /\ (2 * ElemW(i) < ElemH(i)) <=> (elements[i].type = "vertical_group")

\* An emitted rectangle whose ratio is exactly 3, classified button.
C4_Witness ==
    /\ Detected
    /\ \E i \in 1 .. Len(elements) :
          ElemW(i) = 3 * ElemH(i) /\ elements[i].type = "button"

\* C5: every element detect_ui_elements returns is at least 20 wide and 15
\* high, and at most 0.9 of the region's width and of its height.
C5_ElementSizeBounds ==
    Detected =>
        \A i \in 1 .. Len(elements) :
            /\ ElemW(i) >= 20
            /\ ElemH(i) >= 15
            /\ 10 * ElemW(i) <= 9 * regions[target].bounds.width
            /\ 10 * ElemH(i) <= 9 * regions[target].bounds.height

\* A call that returned an element of the smallest size the filter lets
\* through.
C5_Witness ==
    /\ Detected
    /\ \E i \in 1 .. Len(elements) : ElemW(i) = 20 /\ ElemH(i) = 15

\* C6: every element's bounds are a contour rectangle moved by the
\* region's origin, and lie inside the region it was detected in.
C6_ElementInsideRegion ==
    Detected =>
        LET rb == regions[target].bounds IN
        \A i \in 1 .. Len(elements) :
            LET eb == elements[i].bounds IN
            /\ \E j \in 1 .. Len(contours) :
                  /\ eb.x = rb.x + contours[j].x
                  /\ eb.y = rb.y + contours[j].y
                  /\ eb.width = contours[j].w
                  /\ eb.height = contours[j].h
            /\ rb.x <= eb.x
            /\ eb.x + eb.width <= rb.x + rb.width
            /\ rb.y <= eb.y
            /\ eb.y + eb.height <= rb.y + rb.height

\* An element detected in a region that does not start at row 0, from a
\* contour that touches the region's bottom right corner.
C6_Witness ==
    /\ Detected
    /\ regions[target].bounds.y > 0
    /\ \E i \in 1 .. Len(elements) :
          /\ elements[i].bounds.y > regions[target].bounds.y
          /\ elements[i].bounds.y + ElemH(i)
                = regions[target].bounds.y + regions[target].bounds.height
          /\ elements[i].bounds.x + ElemW(i) = regions[target].bounds.width

(***************************************************************************)
(* The claims about get_dominant_colors.                                   *)
(***************************************************************************)
Clustered == pstage = "clustered"

RECURSIVE SumNum(_)
\* The sum of the numerators of the frequencies of a list of entries
SumNum(s) == IF s = <<>> THEN 0 ELSE Head(s).frequency.num + SumNum(Tail(s))

DistinctColors == {pixels[i] : i \in DOMAIN pixels}
NonEmptyClusters == {i \in 0 .. n_colors - 1 : members(labels, i) # {}}

\* C7: for every n_colors from 1 to the number of pixels the call returns,
\* with at most n_colors colours whose frequencies, cluster size over pixel
\* count, sum to 1.
C7_FrequenciesSumToOne ==
    (pstage # "loaded" /\ n_colors <= Len(pixels)) =>
        /\ Clustered
        /\ Len(palette) <= n_colors
        /\ \A i \in 1 .. Len(palette) : palette[i].frequency.den = Len(pixels)
        /\ SumNum(palette) = Len(pixels)

\* A palette of several clusters of different sizes.
C7_Witness ==
    /\ Clustered
    /\ Len(palette) >= 2
    /\ palette[1].frequency.num > palette[2].frequency.num
    /\ palette[2].frequency.num > 0

\* C8: when the image has fewer distinct colours than n_colors, no returned
\* colour has frequency 0 and the palette has as many colours as there are
\* clusters with pixels.
C8_OnlyNonEmptyClusters ==
    (Clustered /\ Cardinality(DistinctColors) < n_colors) =>
        /\ \A i \in 1 .. Len(palette) : palette[i].frequency.num # 0
        /\ Len(palette) = Cardinality(NonEmptyClusters)

\* C9: for an image whose every pixel is (r, g, b), the palette entry of
\* frequency 1 has rgb = (r, g, b) and hex = rgb_to_hex((r, g, b)).
C9_SolidColorReported ==
    (Clustered /\ Cardinality(DistinctColors) = 1) =>
        \A i \in 1 .. Len(palette) :
            palette[i].frequency.num = palette[i].frequency.den =>
                /\ palette[i].rgb = pixels[1]
                /\ palette[i].hex = rgb_to_hex(pixels[1])

\* C10: the palette is the clusters' entries ordered by frequency
\* descending, entries of equal frequency in ascending cluster index.
C10_SortedByFrequency ==
    Clustered =>
        \E perm \in [1 .. n_colors -> 1 .. n_colors] :
            /\ Len(palette) = n_colors
            /\ \A p, q \in 1 .. n_colors : p # q => perm[p] # perm[q]
            /\ \A p \in 1 .. n_colors :
                  palette[p] = color_entry(labels, centers, perm[p] - 1)
            /\ \A p, q \in 1 .. n_colors :
                  p < q =>
                     \/ palette[p].frequency.num > palette[q].frequency.num
                     \/ /\ palette[p].frequency.num = palette[q].frequency.num
                        /\ perm[p] < perm[q]

\* A palette in which two clusters of the same size and different colours
\* follow a larger one that has a higher cluster index.
C10_Witness ==
    /\ Clustered
    /\ n_colors = 3
    /\ palette[2].frequency.num = palette[3].frequency.num
    /\ palette[2].frequency.num > 0
    /\ palette[2].hex # palette[3].hex
    /\ palette[1].frequency.num > palette[2].frequency.num
    /\ palette[1] = color_entry(labels, centers, 2)

(***************************************************************************)
(* The claims about rgb_to_hex.                                            *)
(***************************************************************************)
Formatted == hstage = "formatted"

\* The characters int(s, 16) reads as a digit, with the digit's value.
DigitValue ==
    "0" :> 0 @@ "1" :> 1 @@ "2" :> 2 @@ "3" :> 3 @@ "4" :> 4 @@ "5" :> 5 @@
    "6" :> 6 @@ "7" :> 7 @@ "8" :> 8 @@ "9" :> 9 @@
    "a" :> 10 @@ "b" :> 11 @@ "c" :> 12 @@ "d" :> 13 @@ "e" :> 14 @@ "f" :> 15 @@
    "A" :> 10 @@ "B" :> 11 @@ "C" :> 12 @@ "D" :> 13 @@ "E" :> 14 @@ "F" :> 15

LowerHexDigits ==
    {"0", "1", "2", "3", "4", "5", "6", "7", "8", "9", "a", "b", "c", "d", "e", "f"}

\* int(s[i : i + 2], 16)
ParseGroup(s, i) == 16 * DigitValue[s[i]] + DigitValue[s[i + 1]]

\* The colour read back from "#rrggbb": the three two-digit groups after
\* the "#".  A string of another shape has no reading.
ParseHex(s) ==
    IF /\ Len(s) = 7
       /\ s[1] = "#"
       /\ \A i \in 2 .. 7 : s[i] \in DOMAIN DigitValue
    THEN <<ParseGroup(s, 2), ParseGroup(s, 4), ParseGroup(s, 6)>>
    ELSE <<>>

\* C11: for every colour with its channels in 0..255, parsing the
\* two-hex-digit groups of the string rgb_to_hex produced gives back the
\* colour.
C11_HexRoundTrip == Formatted => ParseHex(hex_out) = rgb_in

\* A colour with a channel below 16, one of two digits and the largest.
C11_Witness == Formatted /\ rgb_in = <<171, 15, CHANNEL_MAX>>

\* C12: for every colour with its channels in 0..255, rgb_to_hex returns
\* seven characters: "#" and six lowercase hexadecimal digits, each channel
\* padded with a zero to two digits; (255, 0, 0) gives "#ff0000".
C12_HexFormat ==
    Formatted =>
        /\ Len(hex_out) = 7
        /\ hex_out[1] = "#"
        /\ \A i \in 2 .. 7 : hex_out[i] \in LowerHexDigits
        /\ \A j \in 1 .. 3 : rgb_in[j] < 16 => hex_out[2 * j] = "0"
        /\ rgb_in = <<255, 0, 0>> => hex_out = <<"#", "f", "f", "0", "0", "0", "0">>

C12_Witness == Formatted /\ rgb_in = <<255, 0, 0>>

(***************************************************************************)
(* The claims about analyze, save_json and the analyze command.            *)
(***************************************************************************)
Started(r) == an[r].pc # "idle"

\* analyze has returned its dictionary in run r.
Returned(r) == Started(r) /\ an[r].result # <<>>

\* Text recognition is disabled, not installed, fails to initialize or
\* raises during recognition in run r.
OcrFails(r) ==
    \/ an[r].inp.no_ocr
    \/ ~an[r].inp.has_ocr
    \/ an[r].inp.ocr \in {"init_fails", "raises", "bad_detection"}

ResultKeys == {"metadata", "colors", "regions", "text_elements"}

\* C13: text recognition never makes analyze fail: when OCR is disabled, not
\* installed, fails to initialize or raises during recognition or during
\* the conversion of a detection, no exception leaves the text stage, the
\* stage gives the empty list, and once it has run analyze returns a
\* complete result whose text_elements is empty.
C13_TextNeverFails ==
    \A r \in Runs :
        Started(r) /\ OcrFails(r) =>
            /\ an[r].failed_in # "text"
            /\ an[r].text_elements = <<>>
            /\ an[r].pc = "raised" /\ Len(an[r].stages) >= 4 =>
                  an[r].failed_in = "visualize"
            /\ Returned(r) =>
                  /\ DOMAIN an[r].result = ResultKeys
                  /\ an[r].result.text_elements = <<>>

\* A run whose recognition raised while converting a detection, and whose
\* analyze returned.
C13_Witness ==
    /\ Returned(1)
    /\ an[1].inp.ocr = "bad_detection"
    /\ an[1].use_ocr /\ an[1].ocr_reader

\* C14: when palette extraction, region segmentation or element detection
\* fails during analyze, the error leaves analyze, no result is returned,
\* and save_json leaves the output file as it was: neither created nor
\* modified.
C14_NoPartialResult ==
    \A r \in Runs :
        Started(r) /\ an[r].failed_in \in {"palette", "regions", "elements"} =>
            /\ an[r].pc \in {"raised", "exited"}
            /\ an[r].exc # "none"
            /\ an[r].result = <<>>
            /\ an[r].out_file = an[r].inp.out_file
            /\ an[r].status # 0

\* Element detection failed on an image whose analysis file existed before.
C14_Witness ==
    /\ an[1].pc = "exited"
    /\ an[1].failed_in = "elements"
    /\ an[1].inp.out_file = "old"
    /\ an[1].colors # <<>> /\ an[1].regions # <<>>

\* What detect_regions returns in run r.
SegmentedRegions(r) ==
    LET rc == region_colors(an[r].inp.color)
    IN detect_regions(an[r].width, an[r].height, rc, rc, rc)

\* The record d without the field k.
Without(d, k) == [f \in DOMAIN d \ {k} |-> d[f]]

RectAnalyzed(r) == Returned(r) /\ an[r].inp.path = "rect.png"

\* C17 as stated: a 200 x 100 image with a single black rectangle 40 wide
\* and 30 high centred in the toolbar band is analyzed to exactly one
\* toolbar element, of type button.
C17_OneButton ==
    \A r \in Runs :
        RectAnalyzed(r) =>
            /\ Len(an[r].result.regions[1].elements) = 1
            /\ an[r].result.regions[1].elements[1].type = "button"

\* C17: a 200 x 100 image is analyzed to no toolbar element, whatever it
\* shows: its toolbar band is 15 rows high, so a contour there is at most 15
\* high, and one that is 15 high is more than 0.9 * 15 = 13.5 high.
C17_NoToolbarElement ==
    \A r \in Runs :
        Returned(r) /\ an[r].inp.size = <<200, 100>> =>
            /\ an[r].result.regions[1].bounds.height = 15
            /\ an[r].result.regions[1].elements = <<>>

C17_Witness ==
    /\ RectAnalyzed(1)
    /\ an[1].inp.size = <<200, 100>>
    /\ an[1].inp.contours = <<rect(80, 0, 40, 15)>>

\* C18: a path that does not resolve and a file that cannot be decoded make
\* the constructor fail with different kinds of error; the analyze command
\* ends with status 1 on both and prints a different message for each.
C18_LoadErrors ==
    \A r \in Runs :
        Started(r) /\ an[r].inp.file # "image" /\ an[r].pc # "start" =>
            /\ an[r].failed_in = "load"
            /\ an[r].inp.file = "missing" <=> an[r].exc = "FileNotFoundError"
            /\ an[r].pc = "exited" =>
                  /\ an[r].status = 1
                  /\ an[r].out_file = an[r].inp.out_file
                  /\ (an[r].inp.file = "missing") <=>
                        (an[r].message[1] = "Error: Image file not found: ")

C18_Witness ==
    /\ an[1].pc = "exited"
    /\ an[1].inp.file = "undecodable"
    /\ an[1].message = <<"Error: ", "cannot identify image file">>

\* What analyze may return in a run with the input inp that goes on alone:
\* the stages applied one after the other, for each outcome of the
\* clustering.
solo_results(inp) ==
    LET o == init_ocr(inp.has_ocr, ~inp.no_ocr, inp.ocr # "init_fails")
        w == inp.size[1]
        h == inp.size[2]
        rc == region_colors(inp.color)
        t == extract_text(o.use_ocr, o.ocr_reader, inp.ocr)
    IN { build_result(inp.path, w, h, colors,
                      attach_elements(detect_regions(w, h, rc, rc, rc),
                                      inp.contours, inp.color),
                      t.value) : colors \in analyze_colors(w, h, inp.color) }

\* Whether analyze raises in a run with the input inp that goes on alone.
solo_raises(inp) ==
    \/ load_image(inp.file) # "none"
    \/ inp.size[1] * inp.size[2] < N_COLORS
    \/ inp.fault \in {"palette", "regions", "elements"}

Loaded == lstage = "loaded"

\* validate accepts the content of the file.
Accepted ==
    /\ spec_file.exists /\ spec_file.parses
    /\ validate(spec_file.content).exc = "none"
    /\ validate(spec_file.content).valid

\* The file holds parsed content that is not a valid spec.
NotValid == spec_file.exists /\ spec_file.parses /\ ~Accepted

\* C20: load raises FileNotFoundError when the path does not exist; for an
\* existing file it raises ValueError, listing the validation errors,
\* whenever the parsed content is not a valid spec, and it returns a UISpec
\* for every content validate accepts.
C20_LoadOutcomes ==
    Loaded =>
        /\ ~spec_file.exists => loaded.exc = "FileNotFoundError"
        /\ NotValid => loaded.exc = "ValueError" /\ loaded.errors # <<>>
        /\ Accepted => loaded.exc = "none" /\ loaded.value # <<>>

(***************************************************************************)
(* Text.  A response of the LLM is a Python str; the extraction looks at   *)
(* it through a regular expression and through strip and startswith, so    *)
(* the model keeps a str as the sequence of the tokens these tell apart:   *)
(* the fence of three backquotes, the word html in either case, a          *)
(* whitespace character, the three prefixes extract_from_tags knows, the   *)
(* lower-case doctype it does not know, and "x" for any other character.   *)
(***************************************************************************)
\* the fence of a code block: three backquotes
FENCE == "fence"

\* len of a token, in characters
token_len(t) ==
    CASE t = FENCE -> 3
      [] t \in {"html", "HTML"} -> 4
      [] t \in {"<html", "<HTML"} -> 5
      [] t \in {"<!DOCTYPE", "<!doctype"} -> 9
      [] OTHER -> 1

\* len(s)
RECURSIVE py_len(_)
py_len(s) == IF s = <<>> THEN 0 ELSE token_len(Head(s)) + py_len(Tail(s))

\* what \s matches and what strip() removes
is_space(t) == t = " "

\* the fence and the word html, under re.IGNORECASE, at position i of text
opens_at(text, i) ==
    /\ i + 1 <= Len(text)
    /\ text[i] = FENCE
    /\ text[i + 1] \in {"html", "HTML"}

\* The first position from i on that holds no whitespace: where the greedy
\* \s* after the opening stops.
RECURSIVE skip_space(_, _)
skip_space(text, i) ==
    IF i <= Len(text) /\ is_space(text[i]) THEN skip_space(text, i + 1) ELSE i

\* The first fence from position i on, 0 when there is none.
RECURSIVE next_fence(_, _)
next_fence(text, i) ==
    IF i > Len(text) THEN 0
    ELSE IF text[i] = FENCE THEN i
    ELSE next_fence(text, i + 1)

\* Where the group (.*?) ends when it starts at s and the closing fence is
\* at f: the lazy group stops at the first position from which only
\* whitespace is left before the fence.
RECURSIVE group_end(_, _, _)
group_end(text, s, f) ==
    IF f > s /\ is_space(text[f - 1]) THEN group_end(text, s, f - 1) ELSE f

\* re.findall(pattern, text, re.DOTALL | re.IGNORECASE), the pattern being
\* the fence, html, \s*, the lazy group, \s* and the fence,
\* from position i on: the groups of the matches, left to right, each
\* search starting after the closing fence of the match before it.
RECURSIVE findall(_, _)
findall(text, i) ==
    IF i > Len(text) THEN <<>>
    ELSE IF ~opens_at(text, i) THEN findall(text, i + 1)
    ELSE LET s == skip_space(text, i + 2)
             f == next_fence(text, s)
         IN  IF f = 0 THEN findall(text, i + 1)
             ELSE <<SubSeq(text, s, group_end(text, s, f) - 1)>>
                      \o findall(text, f + 1)

\* A variant of max_by_len that takes the first match instead of the longest.
max_by_len_first(matches) == matches[1]

\* max(matches, key=len): the first of the longest matches
max_by_len(matches) ==
    LET longest(j) == \A k \in 1 .. Len(matches) :
                          py_len(matches[k]) <= py_len(matches[j])
        first == CHOOSE j \in 1 .. Len(matches) :
                     /\ longest(j)
                     /\ \A k \in 1 .. j - 1 : ~longest(k)
    IN  matches[first]

\* 'if html:' on an Optional[str]
truthy(html) == html.t = "str" /\ html.v # <<>>

\* HTMLExtractor.extract_from_markdown
extract_from_markdown(text) ==
    LET matches == findall(text, 1)
    IN  IF matches # <<>> THEN py_str(max_by_len(matches)) ELSE py_none

\* text.strip()
RECURSIVE rstrip(_)
rstrip(text) ==
    IF text # <<>> /\ is_space(text[Len(text)])
    THEN rstrip(SubSeq(text, 1, Len(text) - 1)) ELSE text

strip(text) == rstrip(SubSeq(text, skip_space(text, 1), Len(text)))

\* str.startswith(('<!DOCTYPE', '<html', '<HTML'))
starts_with_tag(text) ==
    text # <<>> /\ text[1] \in {"<!DOCTYPE", "<html", "<HTML"}

\* HTMLExtractor.extract_from_tags
extract_from_tags(text) ==
    IF starts_with_tag(strip(text)) THEN py_str(strip(text)) ELSE py_none

\* A variant of extract that tries the strategies in the other order.
extract_tags_first(text) ==
    IF truthy(extract_from_tags(text)) THEN extract_from_tags(text)
    ELSE IF truthy(extract_from_markdown(text))
         THEN extract_from_markdown(text)
         ELSE py_none

\* HTMLExtractor.extract
extract(text) ==
    IF truthy(extract_from_markdown(text)) THEN extract_from_markdown(text)
    ELSE IF truthy(extract_from_tags(text)) THEN extract_from_tags(text)
         ELSE py_none

(***************************************************************************)
(* The extraction runs: extract on every text of at most MaxSegments       *)
(* segments, a segment being a piece of prose, a page, or a fenced block   *)
(* (closed or not, tagged html or not, empty or not).                      *)
(***************************************************************************)
MaxSegments == 3

Segments ==
    { <<"x">>, <<" ">>,
      <<"<html", "x">>, <<"<HTML">>, <<"<!DOCTYPE">>, <<"<!doctype">>,
      <<FENCE>>, <<FENCE, "html">>,
      <<FENCE, "x", FENCE>>,
      <<FENCE, "html", " ", FENCE>>,
      <<FENCE, "html", " ", "x", " ", FENCE>>,
      <<FENCE, "HTML", "x", " ", "x", FENCE>>,
      <<FENCE, "html", "<html", "x", FENCE>> }

RECURSIVE TextsOf(_)
TextsOf(n) ==
    IF n = 0 THEN {<<>>}
    ELSE TextsOf(n - 1) \cup {t \o s : t \in TextsOf(n - 1), s \in Segments}

\* HTMLExtractor.extract(text)
Extract ==
    /\ extraction.pc = "called"
    /\ extraction' = [pc |-> "returned", text |-> extraction.text,
                      result |-> extract(extraction.text)]
    /\ UNCHANGED <<generation, rendering, conversion, comparison, command>>
    /\ UNCHANGED coreVars

CoreIdle == StructIdle /\ PaletteIdle /\ HexIdle /\ AnalyzeIdle /\ ParserIdle

InitExtract ==
    /\ \E text \in TextsOf(MaxSegments) :
          extraction = [pc |-> "called", text |-> text]
    /\ generation = no_call /\ rendering = no_call /\ conversion = no_call
    /\ comparison = no_call /\ command = no_call
    /\ CoreIdle

SpecExtract == InitExtract /\ [][Extract]_vars

(***************************************************************************)
(* The claim about HTMLExtractor.extract.                                  *)
(***************************************************************************)
Extracted == extraction.pc = "returned"

\* The contents of the html fenced blocks of a text that are not empty.
FilledBlocks(text) ==
    { findall(text, 1)[j] : j \in 1 .. Len(findall(text, 1)) } \ {<<>>}

\* C22: extract tries its strategies in a fixed order.  A text with html
\* fenced blocks of non-empty content gives the content of a longest one;
\* any other text whose stripped form starts with <!DOCTYPE, <html or <HTML
\* gives the stripped text; every other text gives None.
C22_ExtractOrder ==
    Extracted =>
        LET text == extraction.text
            html == extraction.result
        IN  IF FilledBlocks(text) # {}
            THEN /\ html.t = "str"
                 /\ html.v \in FilledBlocks(text)
                 /\ \A b \in FilledBlocks(text) : py_len(b) <= py_len(html.v)
            ELSE IF starts_with_tag(strip(text))
                 THEN html = py_str(strip(text))
                 ELSE html = py_none

\* A text with two filled blocks, the second one longer, behind a page
\* prefix: the longer block is returned, not the first and not the page.
C22_Witness ==
    /\ Extracted
    /\ extraction.text = <<"<html", "x">>
                         \o <<FENCE, "html", " ", "x", " ", FENCE>>
                         \o <<FENCE, "HTML", "x", " ", "x", FENCE>>
    /\ extraction.result = py_str(<<"x", " ", "x">>)

(***************************************************************************)
(* CodeGenerator.generate (generators/code_generator.py).  The amplifier   *)
(* command line and the file system are outside the repository: a call     *)
(* meets one outcome of output_dir.mkdir, one outcome of the amplifier     *)
(* run and one outcome of html_path.write_text, and finds generated.html   *)
(* as the calls before it left it.                                         *)
(***************************************************************************)
\* CodeGenerator._extract_html: the same pattern and the same max as
\* HTMLExtractor.extract_from_markdown
extract_html(response) ==
    LET matches == findall(response, 1)
    IN  IF matches # <<>> THEN py_str(max_by_len(matches)) ELSE py_none

\* What _invoke_llm does: it returns result.stdout, or raises RuntimeError
\* for a non-zero exit status, or lets the exception of subprocess.run
\* through (no amplifier on the PATH, no answer within 180 seconds).
invoke_llm(llm) ==
    CASE llm.kind = "answers" -> [exc |-> "none", value |-> llm.stdout]
      [] llm.kind = "exits_nonzero" -> [exc |-> "RuntimeError", value |-> <<>>]
      [] llm.kind = "not_installed" -> [exc |-> "FileNotFoundError", value |-> <<>>]
      [] llm.kind = "times_out" -> [exc |-> "TimeoutExpired", value |-> <<>>]

\* str(e) of the exceptions generate catches
str_of(exc) ==
    CASE exc = "RuntimeError" -> "Amplifier command failed: <stderr>"
      [] exc = "FileNotFoundError" -> "[Errno 2] No such file or directory: 'amplifier'"
      [] exc = "TimeoutExpired" -> "Command '['amplifier', 'run', ...]' timed out after 180 seconds"
      [] exc = "PermissionError" -> "[Errno 13] Permission denied: '<output_dir>/generated.html'"
      [] exc = "OSError" -> "[Errno 28] No space left on device"

\* html_path.write_text(html_code): the file afterwards and the exception.
\* A file that cannot be opened stays as it was; a file that was opened
\* for writing and could not be written is left empty.
write_text(disk, html_code, outcome) ==
    CASE outcome = "written" -> [exc |-> "none", disk |-> py_str(html_code)]
      [] outcome = "denied" -> [exc |-> "PermissionError", disk |-> disk]
      [] outcome = "device_full" -> [exc |-> "OSError", disk |-> py_str(<<>>)]

\* GeneratedCode(html_path, generation_log, success, error)
GeneratedCode(log, success, error) ==
    [html_path |-> "<output_dir>/generated.html",
     generation_log |-> log, success |-> success, error |-> error]

\* A variant of generate_body that writes the file before it looks at
\* what was extracted.
generate_body_write_first(llm, disk, write) ==
    LET response == invoke_llm(llm)
        html_code == extract_html(response.value)
        written == write_text(disk, IF html_code.t = "str" THEN html_code.v ELSE <<>>, write)
    IN  IF response.exc # "none"
        THEN [disk |-> disk,
              value |-> GeneratedCode(py_str(str_of(response.exc)), FALSE,
                                      py_str(str_of(response.exc)))]
        ELSE IF ~truthy(html_code)
        THEN [disk |-> written.disk,
              value |-> GeneratedCode(py_str(response.value), FALSE,
                            py_str("No HTML code block found in response"))]
        ELSE [disk |-> written.disk,
              value |-> GeneratedCode(py_str(response.value), TRUE, py_none)]

\* The try block of generate and its except clause: the file afterwards
\* and the GeneratedCode returned.
generate_body(llm, disk, write) ==
    LET response == invoke_llm(llm)
        html_code == extract_html(response.value)
        written == write_text(disk, html_code.v, write)
    IN  IF response.exc # "none"
        THEN [disk |-> disk,
              value |-> GeneratedCode(py_str(str_of(response.exc)), FALSE,
                                      py_str(str_of(response.exc)))]
        ELSE IF ~truthy(html_code)
        THEN [disk |-> disk,
              value |-> GeneratedCode(py_str(response.value), FALSE,
                            py_str("No HTML code block found in response"))]
        ELSE IF written.exc # "none"
        THEN [disk |-> written.disk,
              value |-> GeneratedCode(py_str(str_of(written.exc)), FALSE,
                                      py_str(str_of(written.exc)))]
        ELSE [disk |-> written.disk,
              value |-> GeneratedCode(py_str(response.value), TRUE, py_none)]

\* The calls of generate on one output directory.
MaxCalls == 2

\* What the amplifier run may do: answer with a text of at most two
\* segments, or fail in one of three ways.
LlmOutcomes ==
    { [kind |-> "answers", stdout |-> text] : text \in TextsOf(2) }
    \cup { [kind |-> k, stdout |-> <<>>] :
              k \in {"exits_nonzero", "not_installed", "times_out"} }

\* What one call meets.  The outcome of a step the call does not reach is
\* left at its first value.
Environments ==
    { env \in [mkdir : {"made", "fails"}, llm : LlmOutcomes,
               write : {"written", "denied", "device_full"}] :
        /\ env.mkdir = "fails" => env.llm.kind = "exits_nonzero"
        /\ ~truthy(extract_html(env.llm.stdout)) => env.write = "written" }

\* CodeGenerator().generate(prompt, output_dir)
Generate ==
    /\ generation.pc = "called"
    /\ LET env == generation.env
           done == generate_body(env.llm, generation.disk, env.write)
       IN  generation' =
               IF env.mkdir = "fails"
               THEN [generation EXCEPT !.pc = "raised", !.exc = "OSError"]
               ELSE [generation EXCEPT !.pc = "returned",
                                       !.disk = done.disk,
                                       !.value = done.value]
    /\ UNCHANGED <<extraction, rendering, conversion, comparison, command>>
    /\ UNCHANGED coreVars

\* The next call of generate on the same output directory.
GenerateAgain ==
    /\ generation.pc \in {"returned", "raised"}
    /\ generation.calls < MaxCalls
    /\ \E env \in Environments :
          generation' = [pc |-> "called", calls |-> generation.calls + 1,
                         env |-> env, disk |-> generation.disk,
                         value |-> <<>>, exc |-> "none"]
    /\ UNCHANGED <<extraction, rendering, conversion, comparison, command>>
    /\ UNCHANGED coreVars

NextGenerate == Generate \/ GenerateAgain

\* The first call finds an output directory without generated.html.
InitGenerate ==
    /\ \E env \in Environments :
          generation = [pc |-> "called", calls |-> 1, env |-> env,
                        disk |-> py_none, value |-> <<>>, exc |-> "none"]
    /\ extraction = no_call /\ rendering = no_call /\ conversion = no_call
    /\ comparison = no_call /\ command = no_call
    /\ CoreIdle

SpecGenerate == InitGenerate /\ [][NextGenerate]_vars

(***************************************************************************)
(* The claim about CodeGenerator.generate.                                 *)
(***************************************************************************)
\* The call at hand got past mkdir and met a failing amplifier run.
LlmFails(g) == g.env.mkdir = "made" /\ g.env.llm.kind # "answers"

\* The call at hand got an answer that holds no html block with content.
NoHtmlBlock(g) ==
    /\ g.env.mkdir = "made"
    /\ g.env.llm.kind = "answers"
    /\ FilledBlocks(g.env.llm.stdout) = {}

\* C21: generate reports a failure of the LLM call and a response without
\* an HTML block as a value: the call returns (it does not raise) a
\* GeneratedCode with success = False and a non-empty error, and leaves
\* generated.html as it found it; and a GeneratedCode with success = True
\* has no error and is returned only with the extracted HTML as the
\* content of generated.html.
C21_FailuresAreValues ==
    [][ generation.pc = "called" /\ generation'.pc # "called" =>
          /\ LlmFails(generation) \/ NoHtmlBlock(generation) =>
                /\ generation'.pc = "returned"
                /\ generation'.value.success = FALSE
                /\ generation'.value.error.t = "str"
                /\ generation'.value.error.v # ""
                /\ generation'.disk = generation.disk
          /\ generation'.pc = "returned" /\ generation'.value.success =>
                /\ generation'.value.error = py_none
                /\ generation.env.llm.kind = "answers"
                /\ generation'.disk = extract_html(generation.env.llm.stdout)
                /\ truthy(generation'.disk) ]_vars

\* A second call whose response holds no HTML block, on a directory where
\* the first call wrote the file: it reports the failure and the file of
\* the first call is still there.
C21_Witness ==
    /\ generation.pc = "returned"
    /\ generation.calls = 2
    /\ NoHtmlBlock(generation)
    /\ generation.value.success = FALSE
    /\ truthy(generation.disk)

(***************************************************************************)
(* The claim about the order of the stages of analyze.                     *)
(***************************************************************************)
\* The stages of analyze in the order of its statements.
StageOrder == <<"palette", "regions", "elements", "text", "result">>

\* C23: within one call of analyze the stages run once each and in the
\* order palette extraction (with k = 10), region segmentation, element
\* detection, text recognition: the stages that have started are always an
\* initial part of this order, recognised text exists only after the three
\* structural stages, and the result only after all four.
C23_StagesInOrder ==
    \A r \in Runs : an[r].pc # "idle" =>
        LET done == an[r].stages
        IN  /\ Len(done) <= Len(StageOrder)
            /\ done = SubSeq(StageOrder, 1, Len(done))
            /\ an[r].colors # <<>> => Len(an[r].colors) = N_COLORS
            /\ an[r].text_elements # <<>> =>
                  /\ Len(done) >= 4
                  /\ an[r].regions # <<>>
            /\ an[r].result # <<>> => done = StageOrder

\* A run whose reader found text and whose result is assembled: all the
\* stages are in its log.
C23_Witness ==
    \E r \in Runs :
        /\ an[r].pc = "analyzed"
        /\ an[r].text_elements # <<>>
        /\ an[r].stages = StageOrder

(***************************************************************************)
(* The claim about SpecParser.validate.                                    *)
(***************************************************************************)
\* d is a dictionary with the key k.
HasKey(d, k) == is_dict(d) /\ k \in DOMAIN d.v

\* The conditions of the claim on the content of a spec file.
WellFormed(data) ==
    /\ \A i \in 1 .. Len(REQUIRED_FIELDS) : HasKey(data, REQUIRED_FIELDS[i])
    /\ HasKey(data.v["visual_design"], "dimensions")
    /\ HasKey(data.v["visual_design"].v["dimensions"], "width")
    /\ HasKey(data.v["visual_design"].v["dimensions"], "height")
    /\ HasKey(data.v["visual_design"], "color_palette")
    /\ is_dict(data.v["visual_design"].v["color_palette"])
    /\ LET cp == data.v["visual_design"].v["color_palette"].v
       IN  \A name \in DOMAIN cp :
               cp[name].t = "str" /\ starts_with_hash(cp[name].v)
    /\ is_dict(data.v["component_structure"])

\* The parser has been given a file that exists and parses, so validate
\* has been called on its content.
Validated == lstage = "loaded" /\ spec_file.exists /\ spec_file.parses

\* C24: validate returns valid = true exactly when its errors list is
\* empty, and it does so exactly when the four required fields are there,
\* visual_design.dimensions is a dict with width and height,
\* visual_design.color_palette is a dict of strings that start with '#',
\* and component_structure is a dict; implementation_notes plays no part.
C24_ValidExactly ==
    Validated =>
        LET data == spec_file.content
            v == validate(data)
        IN  /\ v.exc = "none" => (v.valid <=> v.errors = <<>>)
            /\ (v.exc = "none" /\ v.valid) <=> WellFormed(data)
            /\ loaded.exc = "ValueError" <=> (v.exc = "none" /\ ~v.valid)

\* A spec without implementation_notes that validate accepts and load
\* builds.
C24_Witness ==
    /\ Validated
    /\ WellFormed(spec_file.content)
    /\ "implementation_notes" \notin DOMAIN spec_file.content.v
    /\ DOMAIN spec_file.content.v["visual_design"].v["color_palette"].v # {}
    /\ loaded.exc = "none"

(***************************************************************************)
(* BrowserRenderer.render_and_screenshot (utils/html_utils.py), one        *)
(* subprocess.run after the other.  agent-browser is outside the           *)
(* repository: each of its commands ends with status zero, ends with       *)
(* another status (check=True then raises CalledProcessError) or, where    *)
(* the call sets a timeout, does not end in time (TimeoutExpired).         *)
(***************************************************************************)
\* subprocess.run of one command: the command is issued, and its outcome
\* decides where the method goes on.
run_step(r, cmd, outcome, next) ==
    [r EXCEPT !.issued = Append(@, cmd),
              !.pc = CASE outcome = "ok" -> next
                       [] outcome = "times_out" -> "timed_out"
                       [] outcome = "exits_nonzero" -> "failed"]

\* if not html_path.exists(): raise FileNotFoundError
CheckHtml ==
    /\ rendering.pc = "called"
    /\ rendering' = IF rendering.env.html_exists
                    THEN [rendering EXCEPT !.pc = "viewport"]
                    ELSE [rendering EXCEPT !.pc = "raised",
                                           !.exc = "FileNotFoundError"]
    /\ UNCHANGED <<generation, extraction, conversion, comparison, command>>
    /\ UNCHANGED coreVars

\* agent-browser set viewport <width> <height>, without a timeout
SetViewport ==
    /\ rendering.pc = "viewport"
    /\ rendering' = run_step(rendering, "set viewport", rendering.env.viewport, "open")
    /\ UNCHANGED <<generation, extraction, conversion, comparison, command>>
    /\ UNCHANGED coreVars

\* agent-browser open <file_url>
OpenPage ==
    /\ rendering.pc = "open"
    /\ rendering' = run_step(rendering, "open", rendering.env.open, "wait")
    /\ UNCHANGED <<generation, extraction, conversion, comparison, command>>
    /\ UNCHANGED coreVars

\* agent-browser wait 2000
WaitForPage ==
    /\ rendering.pc = "wait"
    /\ rendering' = run_step(rendering, "wait", rendering.env.wait, "screenshot")
    /\ UNCHANGED <<generation, extraction, conversion, comparison, command>>
    /\ UNCHANGED coreVars

\* agent-browser screenshot <screenshot_path> --full
TakeScreenshot ==
    /\ rendering.pc = "screenshot"
    /\ rendering' = run_step(rendering, "screenshot", rendering.env.screenshot, "close")
    /\ UNCHANGED <<generation, extraction, conversion, comparison, command>>
    /\ UNCHANGED coreVars

\* agent-browser close with check=False, then return screenshot_path.exists()
CloseAndReturn ==
    /\ rendering.pc = "close"
    /\ rendering' = [rendering EXCEPT !.issued = Append(@, "close"),
                                      !.pc = "returned",
                                      !.value = rendering.env.shot_exists]
    /\ UNCHANGED <<generation, extraction, conversion, comparison, command>>
    /\ UNCHANGED coreVars

\* except subprocess.TimeoutExpired: agent-browser close, then
\* raise RuntimeError("Browser operation timed out")
CloseOnTimeout ==
    /\ rendering.pc = "timed_out"
    /\ rendering' = [rendering EXCEPT !.issued = Append(@, "close"),
                                      !.pc = "raised",
                                      !.exc = "RuntimeError"]
    /\ UNCHANGED <<generation, extraction, conversion, comparison, command>>
    /\ UNCHANGED coreVars

\* except subprocess.CalledProcessError as e:
\*     raise RuntimeError(f"Browser command failed: {e.stderr.decode()}")
RaiseCommandFailed ==
    /\ rendering.pc = "failed"
    /\ rendering' = [rendering EXCEPT !.pc = "raised", !.exc = "RuntimeError"]
    /\ UNCHANGED <<generation, extraction, conversion, comparison, command>>
    /\ UNCHANGED coreVars

NextRender ==
    \/ CheckHtml \/ SetViewport \/ OpenPage \/ WaitForPage \/ TakeScreenshot
    \/ CloseAndReturn \/ CloseOnTimeout \/ RaiseCommandFailed

\* What a call meets: whether the HTML file is there, how each command
\* ends (set viewport is run without a timeout), and whether the
\* screenshot file is there in the end.
RenderEnvironments ==
    [html_exists : BOOLEAN,
     viewport : {"ok", "exits_nonzero"},
     open : {"ok", "exits_nonzero", "times_out"},
     wait : {"ok", "exits_nonzero", "times_out"},
     screenshot : {"ok", "exits_nonzero", "times_out"},
     shot_exists : BOOLEAN]

InitRender ==
    /\ \E env \in RenderEnvironments :
          rendering = [pc |-> "called", env |-> env, issued |-> <<>>,
                       value |-> FALSE, exc |-> "none"]
    /\ generation = no_call /\ extraction = no_call /\ conversion = no_call
    /\ comparison = no_call /\ command = no_call
    /\ CoreIdle

SpecRender == InitRender /\ [][NextRender]_vars

(***************************************************************************)
(* The claim about render_and_screenshot.                                  *)
(***************************************************************************)
RenderEnded == rendering.pc \in {"returned", "raised"}

\* C25: once render_and_screenshot has issued the open command it issues
\* the close command before it returns or raises, whether the steps
\* succeed, time out or end with a non-zero status.
C25_CloseAfterOpen ==
    RenderEnded =>
        \A i \in 1 .. Len(rendering.issued) :
            rendering.issued[i] = "open" =>
                \E j \in i + 1 .. Len(rendering.issued) :
                    rendering.issued[j] = "close"

(***************************************************************************)
(* The claim about the images too small for a toolbar element.             *)
(***************************************************************************)
\* analyze has returned its result in run r.
Reported(r) == an[r].pc # "idle" /\ an[r].result # <<>>

\* The toolbar regions of a result.
Toolbars(result) ==
    { result.regions[i] : i \in { j \in 1 .. Len(result.regions) :
                                     result.regions[j].type = "toolbar" } }

\* C26: for an image less than 114 pixels high or less than 23 pixels
\* wide, the result of analyze has an empty element list in its toolbar,
\* whatever the contours of the image: no rectangle that fits in the
\* toolbar band, which is int(height * 0.15) high, is at least 20 x 15 and
\* at most 90% of the band in both directions.
C26_SmallImagesNoElements ==
    \A r \in Runs :
        Reported(r) /\ (an[r].height < 114 \/ an[r].width < 23) =>
            \A region \in Toolbars(an[r].result) :
                /\ region.elements = <<>>
                /\ region.bounds.height = int100(top_band(an[r].height))
                /\ \A cw \in 1 .. region.bounds.width, ch \in 1 .. region.bounds.height :
                       \/ is_noise(cw, ch)
                       \/ is_too_large(cw, ch, region.bounds.width,
                                       region.bounds.height)

\* The result for an image 23 wide and 113 high whose toolbar band holds a
\* contour of 20 x 15, the minimum size: the band is 16 rows high and the
\* contour is more than 90% of it.
C26_Witness ==
    \E r \in Runs :
        /\ Reported(r)
        /\ an[r].inp.path = "short.png"
        /\ an[r].inp.contours[1] = rect(0, 0, 20, 15)
        /\ \A region \in Toolbars(an[r].result) : region.elements = <<>>

\* One row more and the same contour is reported: the bound of 114 is sharp.
C26_Sharp ==
    \A r \in Runs :
        Reported(r) /\ an[r].inp.path = "least.png" =>
            \A region \in Toolbars(an[r].result) : Len(region.elements) = 1

(***************************************************************************)
(* SpecConverter.json_to_spec (generators/spec_converter.py).  Its         *)
(* argument is a result of analyze as the analysis runs build it; the      *)
(* spec it returns is a Python dictionary in the form SpecParser reads.    *)
(***************************************************************************)
\* data.get(key, default) and 'key in data' on the analyzer's document
has_key(data, key) == key \in DOMAIN data
get_list(data, key) == IF has_key(data, key) THEN data[key] ELSE <<>>

COLOR_NAMES ==
    <<"primary_bg", "secondary_bg", "border", "text", "accent",
      "accent_hover", "muted", "highlight">>

\* _build_metadata; the two dates are datetime.now() of the call.
build_metadata(screenshot_path) ==
    py_dict([version |-> py_str("1.0"),
             created |-> py_str("<today>"),
             last_updated |-> py_str("<today>"),
             source_screenshot |-> py_str(screenshot_path),
             generated_by |-> py_str("amplifier-ux-analyzer"),
             analysis_method |-> py_str("computer_vision")])

\* A variant of build_color_palette that stores the rgb triple of a colour.
build_color_palette_rgb(colors) ==
    py_dict([name \in {COLOR_NAMES[i] : i \in 1 .. Min({Len(colors), Len(COLOR_NAMES)})} |->
                LET i == CHOOSE i \in 1 .. Len(COLOR_NAMES) : COLOR_NAMES[i] = name
                IN  py_list([k \in 1 .. 3 |-> py_int(colors[i].rgb[k])])])

\* for i, color in enumerate(colors[:len(color_names)]):
\*     color_palette[color_names[i]] = color['hex']
build_color_palette(colors) ==
    py_dict([name \in {COLOR_NAMES[i] : i \in 1 .. Min({Len(colors), Len(COLOR_NAMES)})} |->
                LET i == CHOOSE i \in 1 .. Len(COLOR_NAMES) : COLOR_NAMES[i] = name
                IN  py_str(colors[i].hex)])

TYPOGRAPHY ==
    py_dict([family |-> py_str("-apple-system, BlinkMacSystemFont, Segoe UI, Arial, sans-serif"),
             sizes |-> py_dict([default |-> py_str("14px"),
                                small |-> py_str("12px"),
                                large |-> py_str("16px")])])

\* _build_visual_design
build_visual_design(data) ==
    LET dimensions == py_dict([width |-> py_int(data.metadata.dimensions.width),
                               height |-> py_int(data.metadata.dimensions.height)])
        colors == sorted_desc(get_list(data, "colors"), <<>>)
    IN  py_dict(("dimensions" :> dimensions) @@
                ("color_palette" :> build_color_palette(colors)) @@
                with_key(get_list(data, "text_elements") # <<>>,
                         "typography", TYPOGRAPHY))

\* A bounds dictionary of the document as a Python value.
bounds_value(b) ==
    py_dict([x |-> py_int(b.x), y |-> py_int(b.y),
             width |-> py_int(b.width), height |-> py_int(b.height)])

\* The entry region_elements gets for one element of a region.
element_entry(elem) ==
    py_dict([type |-> py_str(elem.type),
             bounds |-> bounds_value(elem.bounds),
             width |-> py_int(elem.bounds.width),
             height |-> py_int(elem.bounds.height)])

\* components[region_name] for one region: the container, with the
\* region's elements when it has some.
region_component(region) ==
    LET region_elements == [k \in 1 .. Len(get_list(region, "elements")) |->
                               element_entry(region.elements[k])]
    IN  py_dict(("type" :> py_str("container")) @@
                ("bounds" :> bounds_value(region.bounds)) @@
                ("width" :> py_int(region.bounds.width)) @@
                ("height" :> py_int(region.bounds.height)) @@
                with_key(region_elements # <<>>, "elements",
                         py_list(region_elements)))

\* _build_component_structure: one component per region type, the last
\* region of a type winning, or the single component 'main'.
build_component_structure(data) ==
    LET rs == get_list(data, "regions")
        last(name) == CHOOSE i \in 1 .. Len(rs) :
                          /\ rs[i].type = name
                          /\ \A j \in i + 1 .. Len(rs) : rs[j].type # name
    IN  IF rs = <<>>
        THEN py_dict("main" :> py_dict([type |-> py_str("container"),
                         note |-> py_str("No regions detected - single component")]))
        ELSE py_dict([name \in {rs[i].type : i \in 1 .. Len(rs)} |->
                         region_component(rs[last(name)])])

\* _infer_design_intent.  The goal is an f-string; its parts are kept
\* apart.
infer_design_intent(data) ==
    LET num_regions == Len(get_list(data, "regions"))
        num_elements == Len(get_list(data, "elements"))
        complexity == IF num_regions >= 3 THEN "multi-panel interface"
                      ELSE IF num_regions >= 2 THEN "dual-panel interface"
                      ELSE "single-panel interface"
    IN  py_dict([goal |-> py_str(<<"Replicate ", complexity, " with ",
                                   num_elements, " interactive elements">>),
                 philosophy |-> py_str("Pixel-perfect visual replication with event logging scaffold"),
                 complexity |-> py_str(complexity),
                 element_count |-> py_int(num_elements)])

\* _build_implementation_notes
build_implementation_notes(data) ==
    LET texts == get_list(data, "text_elements")
    IN  py_dict(("scaffolding" :> [t |-> "bool", v |-> TRUE]) @@
                ("event_logging" :> py_str("All controls post events to designated DOM element")) @@
                ("backend" :> py_str("Not implemented - frontend only")) @@
                with_key(texts # <<>>, "text_content",
                         py_list([k \in 1 .. Min({Len(texts), 10}) |->
                                     py_str(texts[k].text)])))

\* json_to_spec
json_to_spec(analyzer_json, screenshot_path) ==
    py_dict([metadata |-> build_metadata(screenshot_path),
             design_intent |-> infer_design_intent(analyzer_json),
             visual_design |-> build_visual_design(analyzer_json),
             component_structure |-> build_component_structure(analyzer_json),
             implementation_notes |-> build_implementation_notes(analyzer_json)])

\* SpecConverter().json_to_spec(analyzer_json, screenshot_path)
JsonToSpec ==
    /\ conversion.pc = "called"
    /\ conversion' = [conversion EXCEPT
                         !.pc = "converted",
                         !.spec = json_to_spec(conversion.data,
                                               conversion.data.metadata.source)]
    /\ UNCHANGED <<generation, extraction, rendering, comparison, command>>
    /\ UNCHANGED coreVars

\* SpecParser().validate(spec), and _build_spec(spec) when it is valid
ValidateAndBuild ==
    /\ conversion.pc = "converted"
    /\ LET v == validate(conversion.spec)
       IN  conversion' = [conversion EXCEPT
                             !.pc = "parsed",
                             !.validation = v,
                             !.built = IF v.exc = "none" /\ v.valid
                                       THEN build_spec(conversion.spec)
                                       ELSE [exc |-> "not built", errors |-> <<>>,
                                             value |-> <<>>]]
    /\ UNCHANGED <<generation, extraction, rendering, comparison, command>>
    /\ UNCHANGED coreVars

NextConvert == JsonToSpec \/ ValidateAndBuild

\* The results of analyze on the images of the analysis runs, with and
\* without recognised text.
AnalyzerDocuments ==
    UNION { solo_results(inp) :
              inp \in { i \in RunInputs(AnalyzeFiles, TRUE) :
                          /\ ~solo_raises(i)
                          /\ ~i.visualize
                          /\ i.out_file = "absent" } }

InitConvert ==
    /\ \E data \in AnalyzerDocuments :
          conversion = [pc |-> "called", data |-> data, spec |-> py_none,
                        validation |-> <<>>, built |-> <<>>]
    /\ generation = no_call /\ extraction = no_call /\ rendering = no_call
    /\ comparison = no_call /\ command = no_call
    /\ CoreIdle

SpecConvert == InitConvert /\ [][NextConvert]_vars

(***************************************************************************)
(* The claims about json_to_spec.                                          *)
(***************************************************************************)
Converted == conversion.pc \in {"converted", "parsed"}
Parsed == conversion.pc = "parsed"

\* C27: for a document as analyze returns it, json_to_spec gives a spec
\* that validate accepts (valid, no errors, no exception) and that
\* _build_spec builds into a UISpec without an exception, with one
\* component per region and the toolbar's elements as its children.
C27_ConvertedSpecLoads ==
    Parsed =>
        /\ conversion.validation.exc = "none"
        /\ conversion.validation.valid
        /\ conversion.validation.errors = <<>>
        /\ WellFormed(conversion.spec)
        /\ conversion.built.exc = "none"
        /\ DOMAIN conversion.built.value.component_structure =
               {conversion.data.regions[i].type :
                   i \in 1 .. Len(conversion.data.regions)}
        /\ \A i \in 1 .. Len(conversion.data.regions) :
               LET region == conversion.data.regions[i]
               IN  Len(conversion.built.value.component_structure[region.type].children)
                       = Len(get_list(region, "elements"))

\* The document of an image with a toolbar element and recognised text,
\* converted and built.
C27_Witness ==
    /\ Parsed
    /\ conversion.data.metadata.source = "button.png"
    /\ conversion.data.text_elements # <<>>
    /\ conversion.built.exc = "none"
    /\ Len(conversion.built.value.component_structure["toolbar"].children) = 1

RECURSIVE count_elements(_)
\* The number of elements nested in the regions of a document.
count_elements(regs) ==
    IF regs = <<>> THEN 0
    ELSE Len(get_list(Head(regs), "elements")) + count_elements(Tail(regs))

\* C28: the design_intent of the converted spec reports as element_count,
\* and in its goal text, the number of UI elements held in the regions of
\* the analyzer output.
C28_ElementCount ==
    Converted =>
        LET intent == conversion.spec.v["design_intent"].v
            total == count_elements(conversion.data.regions)
        IN  /\ intent["element_count"] = py_int(total)
            /\ intent["goal"].v[4] = total

(***************************************************************************)
(* ImageComparator (core/comparison.py).  An image file is given by what   *)
(* cv2.imread makes of it: no array for a path that does not resolve or a  *)
(* file that is no image, else an array of height x width x 3.  The pixel  *)
(* values play no part in the sizes; the SSIM score they lead to is part   *)
(* of the input.                                                           *)
(***************************************************************************)
picture(path, size) == [path |-> path, kind |-> "image", size |-> size]
unreadable(path, kind) == [path |-> path, kind |-> kind, size |-> <<0, 0>>]

\* cv2.imread(path): None, or the array; shape is (rows, columns, channels)
imread(file) ==
    IF file.kind = "image"
    THEN [none |-> FALSE, shape |-> <<file.size[2], file.size[1], 3>>]
    ELSE [none |-> TRUE, shape |-> <<>>]

\* (array.shape[1], array.shape[0]): width, height
size_of(array) == <<array.shape[2], array.shape[1]>>

\* A variant of resize that takes dsize as (rows, columns).
resize_rows_first(array, dsize) ==
    [none |-> FALSE, shape |-> <<dsize[1], dsize[2], array.shape[3]>>]

\* cv2.resize(array, dsize, interpolation=cv2.INTER_AREA): dsize is
\* (width, height), the result has dsize[1] rows and dsize[0] columns
resize(array, dsize) ==
    [none |-> FALSE, shape |-> <<dsize[2], dsize[1], array.shape[3]>>]

\* ImageComparator.__init__: the exception it raises, or the object.
new_comparator(reference_file, comparison_file) ==
    LET reference == imread(reference_file)
        comparison_read == imread(comparison_file)
    IN  IF reference.none
        THEN [exc |-> "FileNotFoundError",
              message |-> <<"Reference image not found: ", reference_file.path>>,
              self |-> <<>>]
        ELSE IF comparison_read.none
        THEN [exc |-> "FileNotFoundError",
              message |-> <<"Comparison image not found: ", comparison_file.path>>,
              self |-> <<>>]
        ELSE [exc |-> "none", message |-> <<>>,
              self |-> [reference |-> reference,
                        comparison |->
                            IF size_of(reference) # size_of(comparison_read)
                            THEN resize(comparison_read, size_of(reference))
                            ELSE comparison_read,
                        reference_size |-> size_of(reference),
                        comparison_size |-> size_of(comparison_read)]]

\* The window of structural_similarity: it raises ValueError for an image
\* with a side shorter than its window.
SSIM_WINDOW == 7

\* calculate_similarity: the metrics, or the exception of
\* structural_similarity.  ssim is the score in hundredths.
calculate_similarity(self, ssim) ==
    IF \E k \in 1 .. 2 : self.reference.shape[k] < SSIM_WINDOW
    THEN [exc |-> "ValueError", value |-> <<>>]
    ELSE [exc |-> "none",
          value |-> [ssim |-> ssim,
                     dimensions_match |-> self.reference_size = self.comparison_size,
                     reference_size |-> self.reference_size,
                     comparison_size |-> self.comparison_size]]

\* ImageComparator(reference_path, comparison_path)
ConstructComparator ==
    /\ comparison.pc = "called"
    /\ LET made == new_comparator(comparison.reference_file, comparison.comparison_file)
       IN  comparison' = IF made.exc # "none"
                         THEN [comparison EXCEPT !.pc = "raised", !.exc = made.exc,
                                                 !.message = made.message]
                         ELSE [comparison EXCEPT !.pc = "constructed",
                                                 !.self = made.self]
    /\ UNCHANGED <<generation, extraction, rendering, conversion, command>>
    /\ UNCHANGED coreVars

\* comparator.calculate_similarity()
CalculateSimilarity ==
    /\ comparison.pc = "constructed"
    /\ LET m == calculate_similarity(comparison.self, comparison.ssim)
       IN  comparison' = IF m.exc # "none"
                         THEN [comparison EXCEPT !.pc = "measure_raised", !.exc = m.exc]
                         ELSE [comparison EXCEPT !.pc = "measured", !.metrics = m.value]
    /\ UNCHANGED <<generation, extraction, rendering, conversion, command>>
    /\ UNCHANGED coreVars

NextCompare == ConstructComparator \/ CalculateSimilarity

\* The sides of the images: one below the window of structural_similarity.
ComparatorSides == {6, 8, 12}

ComparatorFiles ==
    { unreadable("missing.png", "missing"), unreadable("notes.txt", "undecodable") }
    \cup { picture("shot.png", <<w, h>>) : w \in ComparatorSides, h \in ComparatorSides }

\* SSIM scores, in hundredths, on both sides of the default threshold 0.95
SsimScores == {94, 95}

InitCompare ==
    /\ \E rf \in ComparatorFiles, cf \in ComparatorFiles, s \in SsimScores :
          comparison = [pc |-> "called", reference_file |-> rf,
                        comparison_file |-> cf, ssim |-> s,
                        exc |-> "none", message |-> <<>>, self |-> <<>>,
                        metrics |-> <<>>]
    /\ generation = no_call /\ extraction = no_call /\ rendering = no_call
    /\ conversion = no_call /\ command = no_call
    /\ CoreIdle

SpecCompare == InitCompare /\ [][NextCompare]_vars

(***************************************************************************)
(* The claim about the construction of an ImageComparator.                 *)
(***************************************************************************)
Readable(file) == file.kind = "image"

\* C29: constructing an ImageComparator raises FileNotFoundError, naming
\* the reference image when that one cannot be read and the comparison
\* image only when the reference can, or it leaves an object whose two
\* arrays both have the width and height of the reference image and whose
\* reference_size and comparison_size are the sizes of the two files; so
\* dimensions_match is true exactly when the files have the same size.
C29_ComparatorInvariant ==
    LET rf == comparison.reference_file
        cf == comparison.comparison_file
    IN  /\ comparison.pc = "raised" =>
              /\ comparison.exc = "FileNotFoundError"
              /\ ~Readable(rf) \/ ~Readable(cf)
              /\ comparison.message[1] = "Reference image not found: " <=> ~Readable(rf)
        /\ comparison.pc \in {"constructed", "measured", "measure_raised"} =>
              /\ Readable(rf) /\ Readable(cf)
              /\ comparison.self.reference.shape = <<rf.size[2], rf.size[1], 3>>
              /\ comparison.self.comparison.shape = <<rf.size[2], rf.size[1], 3>>
              /\ comparison.self.reference_size = rf.size
              /\ comparison.self.comparison_size = cf.size
        /\ comparison.pc = "measured" =>
              /\ comparison.metrics.dimensions_match <=> rf.size = cf.size
              /\ comparison.metrics.reference_size = rf.size
              /\ comparison.metrics.comparison_size = cf.size

\* A narrow comparison image against a wide reference: the array is
\* resized, the sizes recorded are the original ones, and the metrics say
\* that the dimensions do not match.
C29_Witness ==
    /\ comparison.pc = "measured"
    /\ comparison.reference_file.size = <<12, 8>>
    /\ comparison.comparison_file.size = <<8, 12>>
    /\ comparison.self.comparison.shape = <<8, 12, 3>>
    /\ ~comparison.metrics.dimensions_match

(***************************************************************************)
(* The command handlers of the command line: analyze_command (the          *)
(* analysis runs above), convert_command (cli/main.py) and compare_command *)
(* (cli/compare.py).  Each puts its operation in a try statement whose     *)
(* last clause is 'except Exception'.  A KeyboardInterrupt, which is no    *)
(* Exception, may end an operation as well.                                *)
(***************************************************************************)
\* The exceptions of the model that are subclasses of Exception.
ExceptionClasses ==
    {"FileNotFoundError", "PermissionError", "JSONDecodeError", "KeyError",
     "TypeError", "ValueError", "cv2.error"}

\* The except clauses of convert_command and compare_command with the
\* last one left out.
catches_named_only(exc) == exc \in {"FileNotFoundError", "JSONDecodeError"}

\* except FileNotFoundError / except json.JSONDecodeError / except Exception
catches(exc) ==
    \/ exc = "FileNotFoundError"
    \/ exc = "JSONDecodeError"
    \/ exc \in ExceptionClasses

\* What a handler does with the way its operation ended: return 0 at the
\* end of the try block, return 1 in an except clause, or let through.
handler_exit(call, exc) ==
    [call EXCEPT !.exc = exc,
                 !.pc = IF exc = "none" \/ catches(exc) THEN "exited" ELSE "propagated",
                 !.status = IF exc = "none" THEN 0
                            ELSE IF catches(exc) THEN 1 ELSE -1]

\* The try block of convert_command: json.load of the file, json_to_spec,
\* save_yaml.  A JSON array raises TypeError at data['metadata'], an
\* object without metadata KeyError.
convert_operation(call) ==
    CASE call.interrupted -> "KeyboardInterrupt"
      [] call.json_file.kind = "missing" -> "FileNotFoundError"
      [] call.json_file.kind = "invalid" -> "JSONDecodeError"
      [] call.json_file.kind = "array" -> "TypeError"
      [] call.json_file.kind = "object" -> "KeyError"
      [] call.save = "denied" -> "PermissionError"
      [] call.save = "no_directory" -> "FileNotFoundError"
      [] OTHER -> "none"

\* convert_command(args)
ConvertCommand ==
    /\ command.pc = "called"
    /\ command.handler = "convert"
    /\ LET exc == convert_operation(command)
       IN  command' = [handler_exit(command, exc) EXCEPT
                          !.yaml_file =
                              IF exc = "none"
                              THEN json_to_spec(command.json_file.data, command.screenshot)
                              ELSE py_none]
    /\ UNCHANGED <<generation, extraction, rendering, conversion, comparison>>
    /\ UNCHANGED coreVars

\* comparator.is_similar(threshold): metrics["ssim"] >= threshold
is_similar(metrics, threshold) == metrics.ssim >= threshold

\* The try block of compare_command: the comparator, its metrics, the
\* report, and generate_diff_image when --output is given.
compare_operation(call) ==
    LET made == new_comparator(call.reference_file, call.comparison_file)
    IN  CASE call.interrupted -> "KeyboardInterrupt"
          [] made.exc # "none" -> made.exc
          [] calculate_similarity(made.self, call.ssim).exc # "none" ->
                 calculate_similarity(made.self, call.ssim).exc
          [] call.output /\ call.imwrite = "raises" -> "cv2.error"
          [] OTHER -> "none"

\* The verdict compare_command prints in its text report.
compare_verdict(call) ==
    LET made == new_comparator(call.reference_file, call.comparison_file)
        m == calculate_similarity(made.self, call.ssim)
    IN  IF call.interrupted \/ made.exc # "none" THEN "none"
        ELSE IF m.exc # "none" \/ call.json_output THEN "none"
        ELSE IF is_similar(m.value, call.threshold) THEN "SIMILAR" ELSE "DIFFER"

\* A variant of compare_exit that reports images that differ by status 1.
compare_exit_by_verdict(call) ==
    LET done == handler_exit(call, compare_operation(call))
    IN  [done EXCEPT !.verdict = compare_verdict(call),
                     !.status = IF done.status = 0 /\ compare_verdict(call) = "DIFFER"
                                THEN 1 ELSE done.status]

\* compare_command as a whole: 'return 0' follows the report whatever the
\* verdict is.
compare_exit(call) ==
    [handler_exit(call, compare_operation(call)) EXCEPT
        !.verdict = compare_verdict(call)]

\* compare_command(args)
CompareCommand ==
    /\ command.pc = "called"
    /\ command.handler = "compare"
    /\ command' = compare_exit(command)
    /\ UNCHANGED <<generation, extraction, rendering, conversion, comparison>>
    /\ UNCHANGED coreVars

NextCommands == NextAnalyze \/ ConvertCommand \/ CompareCommand

\* The files given to convert_command.
JsonFiles ==
    { [kind |-> k, data |-> <<>>] : k \in {"missing", "invalid", "array", "object"} }
    \cup { [kind |-> "analysis", data |-> d] : d \in AnalyzerDocuments }

ConvertCalls ==
    { [pc |-> "called", handler |-> "convert", json_file |-> f,
       screenshot |-> "shot.png", save |-> s, interrupted |-> i,
       exc |-> "none", status |-> -1, yaml_file |-> py_none] :
        f \in JsonFiles, s \in {"saved", "denied", "no_directory"}, i \in BOOLEAN }

CompareFiles ==
    { unreadable("missing.png", "missing"),
      picture("shot.png", <<6, 6>>), picture("shot.png", <<8, 8>>),
      picture("shot.png", <<12, 8>>) }

\* --threshold, in hundredths: the default 0.95
THRESHOLD == 95

CompareCalls ==
    { [pc |-> "called", handler |-> "compare",
       reference_file |-> rf, comparison_file |-> cf, ssim |-> s,
       threshold |-> THRESHOLD, json_output |-> j, output |-> o,
       imwrite |-> w, interrupted |-> i,
       exc |-> "none", status |-> -1, verdict |-> "none"] :
        rf \in CompareFiles, cf \in CompareFiles, s \in SsimScores,
        j \in BOOLEAN, o \in BOOLEAN, w \in {"writes", "raises"}, i \in BOOLEAN }

\* One call of a handler: analyze_command as in the analysis runs, or
\* convert_command, or compare_command.
InitCommands ==
    \/ /\ InitAnalyze
    \/ /\ command \in ConvertCalls \cup CompareCalls
       /\ generation = no_call /\ extraction = no_call /\ rendering = no_call
       /\ conversion = no_call /\ comparison = no_call
       /\ CoreIdle

SpecCommands == InitCommands /\ [][NextCommands]_vars

(***************************************************************************)
(* The claim about the exit status of the command handlers.                *)
(***************************************************************************)
\* The status of a handler that has ended, for the exception its operation
\* raised: 0 exactly when there is none, 1 for every Exception.
StatusMatches(status, exc) ==
    /\ status \in {0, 1}
    /\ status = 0 <=> exc = "none"
    /\ exc \in ExceptionClasses \cup {"UnidentifiedImageError", "RuntimeError"}
          => status = 1

\* C30: analyze_command, convert_command and compare_command return 0
\* exactly when the operation completes without raising and 1 whenever it
\* raises an Exception; only what is no Exception leaves a handler; and
\* compare_command returns 0 for images it reports as different just as
\* for images it reports as similar.
C30_ExitStatus ==
    /\ \A r \in Runs : an[r].pc = "exited" => StatusMatches(an[r].status, an[r].exc)
    /\ command.pc = "exited" => StatusMatches(command.status, command.exc)
    /\ command.pc = "propagated" => command.exc = "KeyboardInterrupt"
    /\ command.pc = "exited" /\ command.handler = "compare" /\ command.exc = "none"
          => command.status = 0

\* compare_command has reported that the images differ and has returned 0.
C30_Witness ==
    /\ command.pc = "exited"
    /\ command.handler = "compare"
    /\ command.verdict = "DIFFER"
    /\ command.status = 0

==============================================================================
